---- MODULE Spec2Model ----
(***************************************************************************)
(* A decode session of the VA-API -> V4L2 stateful (M2M) decoder driver:   *)
(* the bitstream assembler (h264.c, hevc.c, vp9.c), the two kernel queues  *)
(* (v4l2-backend.c) and the surface / image-buffer entry points            *)
(* (vabackend.c).  One session (V4L2Context) is modelled; the kernel is    *)
(* the environment and answers every ioctl nondeterministically.           *)
(***************************************************************************)
EXTENDS Integers, Sequences, FiniteSets, TLC

(* ------------------------------ bounds -------------------------------- *)

\* surfaces the consumer creates (ids 0 .. NumSurfaces-1)
NumSurfaces == 2
\* buffers the kernel grants on the OUTPUT (bitstream) queue
GrantedOutput == 2
\* buffers the kernel grants on the CAPTURE (decoded frame) queue
GrantedCapture == 2
\* slices described by one slice-parameter buffer
MaxSlices == 2
\* slice-data buffers the consumer renders in one picture
MaxSliceData == 1
\* distinct (width, height, bit depth) keys of picture parameters
NumKeys == 2
\* events of a type other than SOURCE_CHANGE the kernel delivers in one wait
MaxOtherEvents == 2
\* image buffers (DeriveImage) alive at a time
NumImages == 1
\* descriptors ExportSurfaceHandle exports in the life of a session
MaxExports == 2
\* threads of the consumer that call SyncSurface at the same time
NumSyncThreads == 2
\* buffers VIDIOC_REQBUFS grants beyond the count that was requested
GrantExcess == 1
\* slots of drv->buffers[] the model keeps
MaxBuffers == 2
\* threads that create buffers at the same time, and the creations of each
NumCreators == 2
MaxCreates == 2

(* -------------------------- program constants -------------------------- *)

\* int retries = 100 in v4l2_queue_bitstream
WaitRetries == 100
\* while (wait_count < 100) in v4l2_queue_bitstream
EventWaitLimit == 100
\* int retries = 50 in v4l2_SyncSurface
SyncRetries == 50

HEVC_NAL_IDR_W_RADL == 19
HEVC_NAL_CRA_NUT == 21
HEVC_NAL_VPS == 32
HEVC_NAL_SPS == 33
HEVC_NAL_PPS == 34
H264_NAL_IDR == 5

\* #define MAX_CAPTURE_BUFFERS 16: the count v4l2_setup_capture_queue requests
MAX_CAPTURE_BUFFERS == 16

\* #define MAX_OUTPUT_BUFFERS 8: the count v4l2_setup_output_queue requests
MAX_OUTPUT_BUFFERS == 8

\* #define MAX_PROFILES 16: the length of drv->supported_profiles[]
MAX_PROFILES == 16

(* ------------------------------- state --------------------------------- *)

VARIABLES
    codec,              \* ctx->codec->name
    streaming_output,   \* ctx->streaming_output
    streaming_capture,  \* ctx->streaming_capture
    output_queued,      \* ctx->output_buffers[i].queued
    num_capture_buffers,\* ctx->num_capture_buffers
    capture_queued,     \* ctx->capture_buffers[i].queued
    k_output,           \* kernel: OUTPUT buffers it holds
    k_capture,          \* kernel: CAPTURE buffers it holds
    render_target,      \* ctx->render_target (-1: NULL)
    bitstream,          \* ctx->bitstream, as the sequence of appended chunks
    last_slice_count,   \* ctx->last_slice_count (0: last_slice_params NULL)
    h264,               \* ctx->h264: [hdr, sps_pps_sent]
    hevc,               \* ctx->hevc: [hdr, params_sent]
    hevc_last,          \* static hevc_last_width/height/bit_depth (the key)
    surfaces,           \* drv->surfaces[]
    images,             \* drv->buffers[] of type VAImageBufferType
    pc,                 \* position of the thread inside EndPicture
    ep,                 \* locals of the running EndPicture call
    sync,               \* the thread inside SyncSurface
    status,             \* VAStatus of the call that returned last
    in_picture,         \* consumer: BeginPicture called, EndPicture not yet
    slice_data_seen,    \* history: slice-data buffers rendered in this picture
    hdr_in_kernel,      \* history: the cached headers were enqueued since they changed
    begin_released,     \* history: the buffer BeginPicture handed back for this picture
    slices_delivered,   \* history: slices the consumer delivered in this picture
    context,            \* drv->contexts[]: "none", "alive", or "destroyed"
    open_res,           \* process: descriptors and mappings the session opened
    capture_fd,         \* ctx->capture_buffers[i].fd
    plane_mapped,       \* ctx->capture_buffers[i].plane0_ptr / plane1_ptr != NULL
    k_streaming,        \* kernel: the queues it streams
    context_mutex,      \* ctx->mutex: the thread that holds it
    surface_mutex,      \* surface->mutex: the thread that holds it
    thr,                \* the threads inside SyncSurface, lock by lock
    other_hevc,         \* ctx->hevc of another HEVC session of the process
    destroy_deferred,   \* history: image buffers whose DestroyBuffer was deferred
    configs,            \* drv->configs[]
    supported_profiles, \* drv->supported_profiles[0 .. num_supported_profiles - 1]
    bw,                 \* the BitWriter of a header generator
    bw_ret,             \* what bw_finish returned (-1: not called yet)
    bw_ops,             \* history: the writes made through bw
    h264_pic,           \* the VAPictureParameterBufferH264 a generator reads
    hevc_pic,           \* the VAPictureParameterBufferHEVC a generator reads
    gen_vps,            \* the syntax elements hevc_generate_vps wrote
    gen_sps,            \* the syntax elements a generate_sps wrote
    descriptor,         \* the VADRMPRIMESurfaceDescriptor of the caller of ExportSurfaceHandle
    arrays,             \* the counts the set-up functions recorded and the array slots they used
    buffers,            \* drv->buffers[]: the buffer object of each slot
    creators,           \* the threads inside CreateBuffer, CreateImage or DeriveImage
    handed,             \* history: the ids creations returned, with their objects, until destroyed
    image_data          \* what the last GetImage copied into the image buffer of its caller

\* the variables of the session's resources and of the locks
ext_vars == << context, open_res, capture_fd, plane_mapped, k_streaming,
               context_mutex, surface_mutex, thr, other_hevc,
               destroy_deferred >>

\* the resources of the session, and the locks other than ctx->mutex
res_vars == << context, open_res, plane_mapped, other_hevc, destroy_deferred >>
lock_vars == << surface_mutex, thr >>

\* the working state of the header generators
gen_vars == << bw, bw_ret, bw_ops, h264_pic, hevc_pic, gen_vps, gen_sps >>

\* the fixed arrays of the session and of the driver, the buffer table
table_vars == << arrays, buffers, creators, handed >>
aux_vars == << table_vars, image_data >>

\* the driver's state outside the session, the generators, the caller's
\* descriptor
drv_vars == << configs, supported_profiles, gen_vars, descriptor, aux_vars >>

vars == << codec, streaming_output, streaming_capture, output_queued,
           num_capture_buffers, capture_queued, k_output, k_capture,
           render_target, bitstream, last_slice_count, h264, hevc, hevc_last,
           surfaces, images, pc, ep, sync, status, in_picture,
           slice_data_seen, hdr_in_kernel, begin_released, slices_delivered,
           ext_vars, drv_vars >>

SurfaceIds == 0 .. NumSurfaces - 1
SyncThreads == 1 .. NumSyncThreads
ImageIds == 0 .. NumImages - 1
OutputIdx == 0 .. GrantedOutput - 1
CaptureIdx == 0 .. GrantedCapture - 1

(* ------------------------- picture parameters -------------------------- *)

\* A picture-parameter buffer: key stands for (width, height, bit depth),
\* aux for every other field the header generators read.
PicParams == [key : 1 .. NumKeys, aux : 0 .. 1]
NoPic == [key |-> 0, aux |-> 0]

(* --------------------------- assembly buffer --------------------------- *)

\* bitstream_append(bb, NAL_START_CODE, 3)
StartCode == [k |-> "startcode", v |-> NoPic, b |-> 0]
\* a synthesised header NAL: its bytes are a function of the picture params
Hdr(kind, pic) == [k |-> kind, v |-> pic, b |-> 0]
\* slice data as delivered; b is its first byte
Slice(byte) == [k |-> "slice", v |-> NoPic, b |-> byte]

\* bitstream_append
bitstream_append(bb, chunk) == Append(bb, chunk)

\* bitstream_reset
bitstream_reset == << >>


(* ------------------------ bitstream assembler -------------------------- *)

\* uint8_t nal_type = slice_data[0] & 0x1f
h264_nal_type(byte) == byte % 32

\* uint8_t nal_type = (slice_data[0] >> 1) & 0x3f
hevc_nal_type(byte) == (byte \div 2) % 64

\* a syntax element a generator writes with bw_put_bits / bw_put_ue
Elem(name, v) == [f |-> name, v |-> v]

\* h264_generate_sps: of the syntax elements it writes, in order, those
\* that bear on the decoder's picture buffer (aux stands for the fields
\* copied from the picture parameters).  No VUI is written.
h264_generate_sps(pic) ==
    << Elem("constraint_set3_flag", 0),
       Elem("num_ref_frames", pic.aux),
       Elem("vui_parameters_present_flag", 0) >>

\* hevc_generate_vps: the sub-layer ordering info it writes
hevc_generate_vps(pic) ==
    << Elem("vps_sub_layer_ordering_info_present_flag", 1),
       Elem("vps_max_dec_pic_buffering_minus1", pic.aux),
       Elem("vps_max_num_reorder_pics", 0),
       Elem("vps_max_latency_increase_plus1", 0) >>

\* hevc_generate_sps: the sub-layer ordering info it writes, and the end of
\* the VUI of hevc_write_vui
hevc_generate_sps(pic) ==
    << Elem("sps_sub_layer_ordering_info_present_flag", 1),
       Elem("sps_max_dec_pic_buffering_minus1", pic.aux),
       Elem("sps_max_num_reorder_pics", 0),
       Elem("sps_max_latency_increase_plus1", 0),
       Elem("vui_parameters_present_flag", 1),
       Elem("bitstream_restriction_flag", 0) >>

\* h264_handle_picture_params: SPS and PPS are regenerated from every
\* picture-parameter buffer; sps_pps_sent is left as it is.
h264_handle_picture_params(st, pic) == [st EXCEPT !.hdr = pic]

\* bool params_changed in hevc_handle_picture_params
hevc_params_changed(st, last, pic) == pic.key # last \/ st.hdr = NoPic

\* hevc_handle_picture_params: regenerate VPS/SPS/PPS only when the key
\* differs from the process-wide one or nothing is cached yet.
hevc_handle_picture_params(st, last, pic) ==
    IF hevc_params_changed(st, last, pic) THEN [st EXCEPT !.hdr = pic] ELSE st

\* the update of hevc_last_width / height / bit_depth
hevc_update_key(st, last, pic) ==
    IF hevc_params_changed(st, last, pic) THEN pic.key ELSE last

\* the SPS/PPS appended in front of an IDR slice (last_*_size > 0 iff cached)
h264_prepend_parameter_sets(bb, st) ==
    IF st.hdr = NoPic THEN bb
    ELSE bb \o << StartCode, Hdr("SPS", st.hdr), StartCode, Hdr("PPS", st.hdr) >>

\* hevc_prepend_parameter_sets
hevc_prepend_parameter_sets(bb, st) ==
    IF st.hdr = NoPic THEN bb
    ELSE bb \o << StartCode, Hdr("VPS", st.hdr), StartCode, Hdr("SPS", st.hdr),
                  StartCode, Hdr("PPS", st.hdr) >>

\* h264_needs_headers without the test of sps_pps_sent
h264_needs_headers_always(byte, sent) == h264_nal_type(byte) = H264_NAL_IDR

\* the test that makes h264_handle_slice_data prepend SPS/PPS
h264_needs_headers(byte, sent) == h264_nal_type(byte) = H264_NAL_IDR /\ ~sent

\* one iteration of the loop of h264_handle_slice_data
h264_slice(acc, byte) ==
    LET pre == h264_needs_headers(byte, acc.sent)
        bb1 == IF pre THEN h264_prepend_parameter_sets(acc.bb, acc.st) ELSE acc.bb
    IN  [acc EXCEPT !.bb = bb1 \o << StartCode, Slice(byte) >>,
                    !.sent = acc.sent \/ pre]

\* hevc_is_parameter_set without the PPS
hevc_is_parameter_set_no_pps(byte) ==
    hevc_nal_type(byte) \in {HEVC_NAL_VPS, HEVC_NAL_SPS}

\* the test that makes hevc_handle_slice_data skip a delivered VPS/SPS/PPS
hevc_is_parameter_set(byte) ==
    hevc_nal_type(byte) \in {HEVC_NAL_VPS, HEVC_NAL_SPS, HEVC_NAL_PPS}

\* the test that makes hevc_handle_slice_data prepend VPS/SPS/PPS
hevc_needs_headers(byte, sent) ==
    /\ hevc_nal_type(byte) >= HEVC_NAL_IDR_W_RADL
    /\ hevc_nal_type(byte) <= HEVC_NAL_CRA_NUT
    /\ ~sent

\* one iteration of the loop of hevc_handle_slice_data
hevc_slice(acc, byte) ==
    IF hevc_is_parameter_set(byte) THEN acc
    ELSE LET pre == hevc_needs_headers(byte, acc.sent)
             bb1 == IF pre THEN hevc_prepend_parameter_sets(acc.bb, acc.st)
                    ELSE acc.bb
         IN  [acc EXCEPT !.bb = bb1 \o << StartCode, Slice(byte) >>,
                         !.sent = acc.sent \/ pre]

\* one iteration of the loop of vp9_handle_slice_data / vp8_handle_slice_data
vp9_slice(acc, byte) == [acc EXCEPT !.bb = acc.bb \o << Slice(byte) >>]

\* the loop  for (i = 0; i < ctx->last_slice_count; i++)  of a slice-data
\* handler, over the first bytes of the slices of the data buffer
RECURSIVE handle_slice_data(_, _, _, _, _)
handle_slice_data(cd, acc, data, i, n) ==
    IF i > n THEN acc
    ELSE LET nxt == CASE cd = "H264" -> h264_slice(acc, data[i])
                      [] cd = "HEVC" -> hevc_slice(acc, data[i])
                      [] OTHER       -> vp9_slice(acc, data[i])
         IN  handle_slice_data(cd, nxt, data, i + 1, n)

\* first bytes of the slices a consumer of each codec delivers
SliceBytes(cd) ==
    CASE cd = "H264" -> {101, 65}                 \* 0x65 IDR, 0x41 non-IDR
      [] cd = "HEVC" -> {38, 42, 2, 64, 66, 68}   \* IDR_W_RADL, CRA, TRAIL_R, VPS, SPS, PPS
      [] OTHER       -> {130}                     \* a VP8/VP9 frame

\* the slice-data buffers (first byte of each slice) of up to MaxSlices slices
SliceDataBufs(cd) == UNION { [1 .. n -> SliceBytes(cd)] : n \in 1 .. MaxSlices }

\* the header chunks a bitstream must hold to carry the cached headers
CachedHeaders ==
    CASE codec = "H264" -> { Hdr("SPS", h264.hdr), Hdr("PPS", h264.hdr) }
      [] codec = "HEVC" -> { Hdr("VPS", hevc.hdr), Hdr("SPS", hevc.hdr),
                             Hdr("PPS", hevc.hdr) }
      [] OTHER          -> {}

Chunks(bb) == { bb[i] : i \in 1 .. Len(bb) }


(* ------------------------------ objects --------------------------------- *)

\* a free slot of drv->surfaces[]
NoSurface == [alive |-> FALSE, capture_idx |-> -1, decoded |-> FALSE,
              context |-> FALSE]

\* v4l2_CreateSurfaces: the fields of a new surface
NewSurface == [alive |-> TRUE, capture_idx |-> -1, decoded |-> FALSE,
               context |-> FALSE]

\* a free slot of drv->buffers[]
NoImage == [alive |-> FALSE, surface_id |-> -1, mapped |-> FALSE,
            capture_idx |-> 0, in_use |-> FALSE]

\* v4l2_DeriveImage: the calloc'ed buffer object (data NULL until MapBuffer)
NewImage(s) == [alive |-> TRUE, surface_id |-> s, mapped |-> FALSE,
                capture_idx |-> 0, in_use |-> FALSE]

\* the locals of v4l2_EndPicture / v4l2_queue_bitstream between two calls
\* (kcalls: the ioctls the call has issued since its VIDIOC_QBUF succeeded)
NoCall == [buf_idx |-> -1, retries |-> 0, wait_polls |-> 0, wait_count |-> 0,
           event_polls |-> 0, full |-> FALSE, drained |-> 0, reclaimed |-> -1,
           enqueued |-> FALSE, ret |-> 0, kcalls |-> << >>]

\* an ioctl as the session issues it; arg is a buffer index or a count
Ioctl(name, arg) == [call |-> name, arg |-> arg]

\* the ioctls issued so far, with one more; repeated polls of
\* VIDIOC_DQEVENT are recorded once
issue(call, io) ==
    IF io.call = "DQEVENT" /\ call.kcalls # << >>
       /\ call.kcalls[Len(call.kcalls)].call = "DQEVENT"
    THEN call
    ELSE [call EXCEPT !.kcalls = Append(call.kcalls, io)]

\* no thread is inside v4l2_SyncSurface
NoSync == [s |-> -1, pc |-> "idle", retries |-> 0, attempts |-> 0]

\* the thread that is inside BeginPicture / RenderPicture / EndPicture
Decoder == 0

\* a mutex nobody holds
NoThread == -1

\* a thread that is not inside v4l2_SyncSurface
NoThr == [pc |-> "idle", s |-> -1, retries |-> 0]

\* a descriptor of the process: open() and VIDIOC_EXPBUF return the lowest
\* number that is not open
Fd(n) == << "fd", n >>

\* the mapping of OUTPUT buffer i (output_buffers[i].start)
OutMap(i) == << "outmap", i >>

\* the mapping of OUTPUT buffer i of a context that was freed half-built
LostMap(i) == << "lostmap", i >>

\* the mappings of the two planes of CAPTURE buffer b (plane0_ptr, plane1_ptr)
PlaneMaps(b) == { << "plane0", b >>, << "plane1", b >> }

\* the lowest descriptor number that is not open
lowest_fd(res) == CHOOSE n \in 0 .. Cardinality(res) :
                     Fd(n) \notin res /\ \A m \in 0 .. n - 1 : Fd(m) \in res

\* what v4l2_CreateContext leaves open: the device and the OUTPUT mappings
created_res == { Fd(0) } \cup { OutMap(i) : i \in OutputIdx }

\* allocate_surface_id / allocate_buffer_id: the lowest free slot
FirstFree(tab, ids) ==
    IF \E i \in ids : ~tab[i].alive
    THEN CHOOSE i \in ids : ~tab[i].alive /\ \A j \in ids : j < i => tab[j].alive
    ELSE -1

\* get_surface
get_surface(id) == id \in SurfaceIds /\ surfaces[id].alive

(* --------------------- v4l2_requeue_capture ----------------------------- *)
(* Declared in vabackend.h and called by BeginPicture, UnmapBuffer and     *)
(* DestroySurfaces; its body is not part of the sources.  Modelled from    *)
(* the specification: the buffer is handed back to the kernel and its      *)
(* descriptor marked queued.                                               *)

requeue_queued(q, idx) == [q EXCEPT ![idx] = TRUE]
requeue_kernel(k, idx) == k \cup {idx}

(* ------------------------------- Init ---------------------------------- *)

(* ------------------------------ bit writer ------------------------------ *)

\* bw_init: an empty writer over a buffer of capacity bytes
bw_init(capacity) ==
    [data |-> << >>, size |-> 0, capacity |-> capacity, bit_pos |-> 0,
     current_byte |-> 0]

\* the unsigned value of a bit string, most significant bit first
BitsValue(b) ==
    LET val[i \in 0 .. Len(b)] == IF i = 0 THEN 0 ELSE 2 * val[i - 1] + b[i]
    IN  val[Len(b)]

\* the bits a writer holds in current_byte: bit_pos of them
HeldBits(w) ==
    [i \in 1 .. w.bit_pos |-> (w.current_byte \div 2 ^ (w.bit_pos - i)) % 2]

\* the bits the loop of bw_put_bits shifts in: (val >> i) & 1 for
\* i = bits - 1 down to 0
ValBits(val, bits) == [i \in 1 .. bits |-> (val \div 2 ^ (bits - i)) % 2]

\* bw_put_bits: the loop shifts each bit into current_byte; every eighth bit
\* completes a byte, which is stored if size < capacity and dropped
\* otherwise; the bits after the last completed byte stay in current_byte
bw_put_bits(w, val, bits) ==
    LET all == HeldBits(w) \o ValBits(val, bits)
        full == Len(all) \div 8
        room == w.capacity - w.size
        stored == IF full < room THEN full ELSE room
    IN  [w EXCEPT !.data = w.data \o
                     [j \in 1 .. stored |-> BitsValue(SubSeq(all, 8 * j - 7, 8 * j))],
                  !.size = w.size + stored,
                  !.bit_pos = Len(all) % 8,
                  !.current_byte = BitsValue(SubSeq(all, 8 * full + 1, Len(all)))]

\* the loop  while (tmp) { bits++; tmp >>= 1; }  of bw_put_ue
RECURSIVE ue_bits(_)
ue_bits(tmp) == IF tmp = 0 THEN 0 ELSE 1 + ue_bits(tmp \div 2)

\* bw_put_ue with one leading zero too many
bw_put_ue_long(w, v) ==
    bw_put_bits(bw_put_bits(w, 0, ue_bits(v + 1)), v + 1, ue_bits(v + 1))

\* bw_put_ue: val++ (no wrap of the uint32_t for v below 2^31 - 1), the
\* leading zeros, the value
bw_put_ue(w, v) ==
    bw_put_bits(bw_put_bits(w, 0, ue_bits(v + 1) - 1), v + 1, ue_bits(v + 1))

\* bw_finish: the writer it leaves; it returns the size of that writer
bw_finish(w) ==
    IF w.bit_pos > 0
    THEN LET cb == ((((w.current_byte * 2) % 256) + 1) * (2 ^ (8 - (w.bit_pos + 1)))) % 256
         IN  [w EXCEPT !.data = IF w.size < w.capacity THEN Append(w.data, cb)
                                 ELSE w.data,
                        !.size = IF w.size < w.capacity THEN w.size + 1 ELSE w.size,
                        !.bit_pos = w.bit_pos + 1,
                        !.current_byte = cb]
    ELSE w

\* sizeof of the buffers the generators write into (last_sps and the like)
BwCapacity == 256

(* -------------------------- picture parameters -------------------------- *)

\* the fields of VAPictureParameterBufferH264 that h264_detect_profile,
\* h264_calc_level and the cropping of h264_generate_sps read
NoH264Pic ==
    [picture_width_in_mbs_minus1 |-> 0, picture_height_in_mbs_minus1 |-> 0,
     bit_depth_luma_minus8 |-> 0, bit_depth_chroma_minus8 |-> 0,
     num_ref_frames |-> 0, chroma_format_idc |-> 0, frame_mbs_only_flag |-> 0,
     transform_8x8_mode_flag |-> 0, entropy_coding_mode_flag |-> 0]

\* the fields of VAPictureParameterBufferHEVC that the profile, tier, level
\* and conformance window of hevc_generate_vps / hevc_generate_sps read
NoHevcPic ==
    [pic_width_in_luma_samples |-> 0, pic_height_in_luma_samples |-> 0,
     bit_depth_luma_minus8 |-> 0, chroma_format_idc |-> 0,
     separate_colour_plane_flag |-> 0,
     log2_min_luma_coding_block_size_minus3 |-> 0,
     log2_diff_max_min_luma_coding_block_size |-> 0]

\* the descriptor of a caller that has not exported yet
NoDescriptor ==
    [filled |-> FALSE, fourcc |-> "none", width |-> 0, height |-> 0,
     num_objects |-> 0, fd |-> -1, size |-> 0, modifier |-> "none",
     num_layers |-> 0, layers |-> << >>]

\* the slots of drv->buffers[] the model keeps (MAX_BUFFERS in the source)
BufIdx == 0 .. MaxBuffers - 1

\* the threads of the consumer that create buffers
Creators == 1 .. NumCreators

\* drv->buffers[i] == NULL
NoObject == << -1, -1 >>

\* a thread outside the creating calls that has made no buffer yet
NoCreator == [pc |-> "idle", id |-> -1, made |-> 0]

\* an image buffer GetImage has not written to
NoImageData == [y |-> 0, uv |-> 0, overrun |-> FALSE]

\* before any set-up function ran: no count recorded, no slot used by a
\* set-up loop or for a dequeued buffer
NoArrays == [num_output_buffers |-> 0, num_capture_buffers |-> 0,
             num_supported_profiles |-> 0, used |-> {}, dequeued |-> {}]

\* a generator is about to read the picture parameters h (H.264) or v
\* (HEVC); nothing was exported
InitPics(h, v) ==
    /\ bw = bw_init(BwCapacity)
    /\ bw_ret = -1
    /\ bw_ops = << >>
    /\ h264_pic = h
    /\ hevc_pic = v
    /\ gen_vps = << >>
    /\ gen_sps = << >>
    /\ descriptor = NoDescriptor
    /\ arrays = NoArrays
    /\ buffers = [i \in BufIdx |-> NoObject]
    /\ creators = [t \in Creators |-> NoCreator]
    /\ handed = {}
    /\ image_data = NoImageData

\* no generator runs and nothing was exported
InitIdle == InitPics(NoH264Pic, NoHevcPic)

(* ------------------------------- configs -------------------------------- *)

\* the slots of drv->configs[] the model keeps (MAX_PROFILES in the source)
MaxConfigs == 2

ConfigIdx == 0 .. MaxConfigs - 1

\* the profiles of VAProfile the driver names, and one it does not
Profiles == { "H264ConstrainedBaseline", "H264Main", "H264High", "HEVCMain",
              "HEVCMain10", "VP8Version0_3", "VP9Profile0", "VP9Profile2",
              "AV1Profile0", "MPEG2Main", "MPEG4AdvancedSimple", "JPEGBaseline" }

\* entrypoints of VAEntrypoint
Entrypoints == { "VLD", "EncSlice", "VideoProc" }

\* the codec definitions h264_codec, hevc_codec, vp8_codec, vp9_codec
h264_codec == [name |-> "H264", v4l2_pixfmt |-> "H264",
               profiles |-> << "H264ConstrainedBaseline", "H264Main", "H264High" >>]
hevc_codec == [name |-> "HEVC", v4l2_pixfmt |-> "HEVC",
               profiles |-> << "HEVCMain", "HEVCMain10" >>]
vp8_codec == [name |-> "VP8", v4l2_pixfmt |-> "VP8",
              profiles |-> << "VP8Version0_3" >>]
vp9_codec == [name |-> "VP9", v4l2_pixfmt |-> "VP9",
              profiles |-> << "VP9Profile0", "VP9Profile2" >>]

\* the codec registry
codecs == << h264_codec, hevc_codec, vp8_codec, vp9_codec >>

\* NULL of codec_for_profile
NoCodec == [name |-> "none", v4l2_pixfmt |-> "none", profiles |-> << >>]

\* codec_for_profile: the first registered codec that lists the profile
codec_for_profile(profile) ==
    LET hits == { i \in 1 .. Len(codecs) :
                    \E j \in 1 .. Len(codecs[i].profiles) :
                       codecs[i].profiles[j] = profile }
    IN  IF hits = {} THEN NoCodec
        ELSE codecs[CHOOSE i \in hits : \A k \in hits : i <= k]

\* the pixel formats v4l2_probe_capabilities knows, and one it does not (NV12)
PixFmts == << "H264", "H264_SLICE", "HEVC", "VP8", "VP9", "AV1", "MPEG2",
              "MPEG4", "NV12" >>

\* the switch of v4l2_probe_capabilities: the profiles one format adds
probe_format(fmt) ==
    CASE fmt \in {"H264", "H264_SLICE"} ->
            << "H264ConstrainedBaseline", "H264Main", "H264High" >>
      [] fmt = "HEVC"  -> << "HEVCMain", "HEVCMain10" >>
      [] fmt = "VP8"   -> << "VP8Version0_3" >>
      [] fmt = "VP9"   -> << "VP9Profile0", "VP9Profile2" >>
      [] fmt = "AV1"   -> << "AV1Profile0" >>
      [] fmt = "MPEG2" -> << "MPEG2Main" >>
      [] fmt = "MPEG4" -> << "MPEG4AdvancedSimple" >>
      [] OTHER         -> << >>

\* v4l2_probe_capabilities over the formats VIDIOC_ENUM_FMT returns
RECURSIVE v4l2_probe_capabilities(_)
v4l2_probe_capabilities(fmts) ==
    IF fmts = << >> THEN << >>
    ELSE probe_format(Head(fmts)) \o v4l2_probe_capabilities(Tail(fmts))

\* the enumerations of a device: PixFmts restricted to the formats it has
EnumFmt(have) == SelectSeq(PixFmts, LAMBDA f : f \in have)

\* an empty slot of drv->configs[]
NoConfig == [profile |-> "none", entrypoint |-> "none", codec |-> "none"]

\* VA_INVALID_ID as allocate_config_id returns it
InvalidConfigId == -1

\* allocate_config_id: the 1-based id of the first empty slot
allocate_config_id(cfgs) ==
    IF \A i \in ConfigIdx : cfgs[i] # NoConfig THEN InvalidConfigId
    ELSE 1 + CHOOSE i \in ConfigIdx :
                 cfgs[i] = NoConfig /\ \A k \in ConfigIdx : cfgs[k] = NoConfig => i <= k

CONFIG_INDEX(id) == id - 1

\* create_config_status with the entrypoint tested before the profile
create_config_status_entrypoint_first(cfgs, profile, entrypoint, mem) ==
    IF entrypoint # "VLD" THEN "UNSUPPORTED_ENTRYPOINT"
    ELSE IF codec_for_profile(profile) = NoCodec THEN "UNSUPPORTED_PROFILE"
    ELSE IF allocate_config_id(cfgs) = InvalidConfigId THEN "ALLOCATION_FAILED"
    ELSE IF ~mem THEN "ALLOCATION_FAILED"
    ELSE "SUCCESS"

\* the status v4l2_CreateConfig returns; mem: calloc succeeds
create_config_status(cfgs, profile, entrypoint, mem) ==
    IF codec_for_profile(profile) = NoCodec THEN "UNSUPPORTED_PROFILE"
    ELSE IF entrypoint # "VLD" THEN "UNSUPPORTED_ENTRYPOINT"
    ELSE IF allocate_config_id(cfgs) = InvalidConfigId THEN "ALLOCATION_FAILED"
    ELSE IF ~mem THEN "ALLOCATION_FAILED"
    ELSE "SUCCESS"

\* the driver of a session of codec cd: the device enumerates the codec's
\* format and the session's config sits in the first slot
InitDriver(cd) ==
    /\ supported_profiles = v4l2_probe_capabilities(<< cd >>)
    /\ configs = [i \in ConfigIdx |->
                    IF i = 0
                    THEN [profile |-> v4l2_probe_capabilities(<< cd >>)[1],
                          entrypoint |-> "VLD", codec |-> cd]
                    ELSE NoConfig]

\* The state after __vaDriverInit, CreateConfig and CreateContext
\* (v4l2_setup_output_queue): the OUTPUT buffers are mapped and not queued,
\* nothing streams, the CAPTURE queue does not exist yet.
InitSession(cds, ctx, res) ==
    /\ codec \in cds
    /\ streaming_output = FALSE
    /\ streaming_capture = FALSE
    /\ output_queued = [i \in OutputIdx |-> FALSE]
    /\ num_capture_buffers = 0
    /\ capture_queued = [i \in CaptureIdx |-> FALSE]
    /\ k_output = {}
    /\ k_capture = {}
    /\ render_target = -1
    /\ bitstream = << >>
    /\ last_slice_count = 0
    /\ h264 = [hdr |-> NoPic, sps_pps_sent |-> FALSE]
    /\ hevc = [hdr |-> NoPic, params_sent |-> FALSE]
    /\ hevc_last = 0
    /\ surfaces = [s \in SurfaceIds |-> NoSurface]
    /\ images = [i \in ImageIds |-> NoImage]
    /\ pc = "idle"
    /\ ep = NoCall
    /\ sync = NoSync
    /\ status = "SUCCESS"
    /\ in_picture = FALSE
    /\ slice_data_seen = 0
    /\ hdr_in_kernel = FALSE
    /\ begin_released = -1
    /\ slices_delivered = 0
    /\ context = ctx
    /\ open_res = res
    /\ capture_fd = [i \in CaptureIdx |-> 0]
    /\ plane_mapped = [i \in CaptureIdx |-> FALSE]
    /\ k_streaming = {}
    /\ context_mutex = NoThread
    /\ surface_mutex = [s \in SurfaceIds |-> NoThread]
    /\ thr = [t \in SyncThreads |-> NoThr]
    /\ other_hevc = [hdr |-> NoPic, params_sent |-> FALSE]
    /\ destroy_deferred = {}

\* the session and, around it, the driver that holds its config
InitAt(cds, ctx, res) ==
    InitSession(cds, ctx, res) /\ InitDriver(codec) /\ InitIdle

\* The state after __vaDriverInit, CreateConfig and CreateContext
InitWith(cds) == InitAt(cds, "alive", created_res)

\* the variables of the session proper (everything but surfaces and images)
session_vars == << codec, streaming_output, streaming_capture, output_queued,
                   num_capture_buffers, capture_queued, k_output, k_capture,
                   render_target, bitstream, last_slice_count, h264, hevc,
                   hevc_last, pc, ep, in_picture, slice_data_seen,
                   hdr_in_kernel, begin_released, slices_delivered >>

(* --------------------------- surfaces ---------------------------------- *)

\* v4l2_CreateSurfaces (one surface)
CreateSurfaces ==
    /\ pc = "idle"
    /\ FirstFree(surfaces, SurfaceIds) # -1
    /\ surfaces' = [surfaces EXCEPT ![FirstFree(surfaces, SurfaceIds)] = NewSurface]
    /\ status' = "SUCCESS"
    /\ UNCHANGED << drv_vars, ext_vars, session_vars, images, sync >>

\* v4l2_DestroySurfaces (one surface): an outstanding CAPTURE buffer is
\* requeued, the surface freed.  The consumer does not destroy the render
\* target of a running picture nor a surface a thread is syncing on.
DestroySurfaces(s) ==
    /\ pc = "idle"
    /\ surfaces[s].alive
    /\ ~(in_picture /\ render_target = s)
    /\ sync.s # s
    /\ LET back == surfaces[s].context /\ surfaces[s].capture_idx >= 0
       IN  /\ capture_queued' = IF back
                                THEN requeue_queued(capture_queued, surfaces[s].capture_idx)
                                ELSE capture_queued
           /\ k_capture' = IF back
                           THEN requeue_kernel(k_capture, surfaces[s].capture_idx)
                           ELSE k_capture
    /\ surfaces' = [surfaces EXCEPT ![s] = NoSurface]
    /\ status' = "SUCCESS"
    /\ UNCHANGED << drv_vars, ext_vars, codec, begin_released, slices_delivered, streaming_output, streaming_capture, output_queued,
                    num_capture_buffers, k_output, render_target, bitstream,
                    last_slice_count, h264, hevc, hevc_last, images, pc, ep,
                    sync, in_picture, slice_data_seen, hdr_in_kernel >>

(* --------------------------- BeginPicture ------------------------------- *)

\* begin_release with an off-by-one test: buffer 0 is never handed back
begin_release_from_one(sf) == sf.context /\ sf.capture_idx > 0

\* the part of v4l2_BeginPicture that releases the buffer the surface held
begin_release(sf) == sf.context /\ sf.capture_idx >= 0

\* the surface as v4l2_BeginPicture leaves it
begin_surface(sf) == [sf EXCEPT !.capture_idx = -1, !.context = TRUE,
                                !.decoded = FALSE]

\* v4l2_BeginPicture on a valid context and surface
BeginPicture(s) ==
    /\ pc = "idle"
    /\ context = "alive"
    /\ context_mutex = NoThread
    /\ ~in_picture
    /\ surfaces[s].alive
    /\ capture_queued' = IF begin_release(surfaces[s])
                         THEN requeue_queued(capture_queued, surfaces[s].capture_idx)
                         ELSE capture_queued
    /\ k_capture' = IF begin_release(surfaces[s])
                    THEN requeue_kernel(k_capture, surfaces[s].capture_idx)
                    ELSE k_capture
    /\ surfaces' = [surfaces EXCEPT ![s] = begin_surface(surfaces[s])]
    /\ bitstream' = bitstream_reset
    /\ render_target' = s
    /\ last_slice_count' = 0
    /\ in_picture' = TRUE
    /\ slice_data_seen' = 0
    /\ begin_released' = IF begin_release(surfaces[s]) THEN surfaces[s].capture_idx
                         ELSE -1
    /\ slices_delivered' = 0
    /\ status' = "SUCCESS"
    /\ UNCHANGED << drv_vars, ext_vars, codec, streaming_output, streaming_capture, output_queued,
                    num_capture_buffers, k_output, h264, hevc, hevc_last,
                    images, pc, ep, sync, hdr_in_kernel >>

(* --------------------------- RenderPicture ------------------------------ *)

\* v4l2_RenderPicture, case VAPictureParameterBufferType
RenderPictureParams(pic) ==
    /\ pc = "idle"
    /\ context = "alive"
    /\ context_mutex = NoThread
    /\ in_picture
    /\ h264' = IF codec = "H264" THEN h264_handle_picture_params(h264, pic) ELSE h264
    /\ hevc' = IF codec = "HEVC" THEN hevc_handle_picture_params(hevc, hevc_last, pic)
               ELSE hevc
    /\ hevc_last' = IF codec = "HEVC" THEN hevc_update_key(hevc, hevc_last, pic)
                    ELSE hevc_last
    /\ hdr_in_kernel' = (hdr_in_kernel /\ h264' = h264 /\ hevc' = hevc)
    /\ status' = "SUCCESS"
    /\ UNCHANGED << drv_vars, ext_vars, codec, begin_released, slices_delivered, streaming_output, streaming_capture, output_queued,
                    num_capture_buffers, capture_queued, k_output, k_capture,
                    render_target, bitstream, last_slice_count, surfaces,
                    images, pc, ep, sync, in_picture, slice_data_seen >>

\* hevc_handle_picture_params in another HEVC session of the process: its
\* own cache, and the same static hevc_last_width / height / bit_depth
OtherSessionPictureParams(pic) ==
    /\ other_hevc' = hevc_handle_picture_params(other_hevc, hevc_last, pic)
    /\ hevc_last' = hevc_update_key(other_hevc, hevc_last, pic)
    /\ UNCHANGED << drv_vars, context, open_res, plane_mapped, destroy_deferred,
                    capture_fd, k_streaming, context_mutex, lock_vars, codec,
                    begin_released, slices_delivered, streaming_output,
                    streaming_capture, output_queued, num_capture_buffers,
                    capture_queued, k_output, k_capture, render_target,
                    bitstream, last_slice_count, h264, hevc, surfaces, images,
                    pc, ep, sync, status, in_picture, slice_data_seen,
                    hdr_in_kernel >>

\* v4l2_RenderPicture, case VASliceParameterBufferType
RenderSliceParams(n) ==
    /\ pc = "idle"
    /\ context = "alive"
    /\ context_mutex = NoThread
    /\ in_picture
    /\ last_slice_count' = n
    /\ status' = "SUCCESS"
    /\ UNCHANGED << drv_vars, ext_vars, codec, begin_released, slices_delivered, streaming_output, streaming_capture, output_queued,
                    num_capture_buffers, capture_queued, k_output, k_capture,
                    render_target, bitstream, h264, hevc, hevc_last, surfaces,
                    images, pc, ep, sync, in_picture, slice_data_seen,
                    hdr_in_kernel >>

\* the state of the codec's handle_slice_data before its loop
slice_acc == [bb |-> bitstream,
              sent |-> IF codec = "H264" THEN h264.sps_pps_sent ELSE hevc.params_sent,
              st |-> IF codec = "H264" THEN h264 ELSE hevc]

\* v4l2_RenderPicture, case VASliceDataBufferType: the codec's
\* handle_slice_data over the latched slice parameters
RenderSliceData(data) ==
    /\ pc = "idle"
    /\ context = "alive"
    /\ context_mutex = NoThread
    /\ in_picture
    /\ slice_data_seen < MaxSliceData
    /\ Len(data) >= last_slice_count
    /\ LET out == handle_slice_data(codec, slice_acc, data, 1, last_slice_count)
       IN  /\ bitstream' = out.bb
           /\ h264' = IF codec = "H264" THEN [h264 EXCEPT !.sps_pps_sent = out.sent]
                      ELSE h264
           /\ hevc' = IF codec = "HEVC" THEN [hevc EXCEPT !.params_sent = out.sent]
                      ELSE hevc
    /\ slice_data_seen' = slice_data_seen + 1
    /\ slices_delivered' = slices_delivered + last_slice_count
    /\ status' = "SUCCESS"
    /\ UNCHANGED << drv_vars, ext_vars, codec, begin_released, streaming_output, streaming_capture, output_queued,
                    num_capture_buffers, capture_queued, k_output, k_capture,
                    render_target, last_slice_count, hevc_last, surfaces,
                    images, pc, ep, sync, in_picture, hdr_in_kernel >>


(* ------------------------- v4l2_dequeue_frame --------------------------- *)

\* what VIDIOC_DQBUF on the CAPTURE queue can answer: a buffer the kernel
\* holds (only while the queue streams), or -1 for EAGAIN / an error
DequeueAnswers == {-1} \cup (IF streaming_capture THEN k_capture ELSE {})

\* v4l2_dequeue_frame after a successful DQBUF of buffer b: the surface
dequeue_surface(sf, b) == [sf EXCEPT !.capture_idx = b, !.decoded = TRUE]

\* v4l2_dequeue_frame after a successful DQBUF of buffer b: the descriptor
dequeue_queued(q, b) == [q EXCEPT ![b] = FALSE]

\* v4l2_dequeue_frame(ctx, surface s) with the kernel answering b
dequeue_frame(s, b) ==
    IF b = -1
    THEN UNCHANGED << surfaces, capture_queued, k_capture >>
    ELSE /\ surfaces' = [surfaces EXCEPT ![s] = dequeue_surface(surfaces[s], b)]
         /\ capture_queued' = dequeue_queued(capture_queued, b)
         /\ k_capture' = k_capture \ {b}

(* --------------------------- EndPicture --------------------------------- *)

\* "Find available OUTPUT buffer": the first descriptor that is not queued
find_output_buffer(q) ==
    IF \E i \in OutputIdx : ~q[i]
    THEN CHOOSE i \in OutputIdx : ~q[i] /\ \A j \in OutputIdx : j < i => q[j]
    ELSE -1

\* reclaim_output_buffers that marks every descriptor unqueued
reclaim_output_buffers_all(q, R) == [i \in OutputIdx |-> FALSE]

\* v4l2_reclaim_output_buffers: the descriptors after the drain reclaimed R
reclaim_output_buffers(q, R) == [i \in OutputIdx |-> q[i] /\ i \notin R]

\* the sets of buffers a drain can reclaim: nothing unless the queue
\* streams; a prompt kernel has completed every buffer it held
DrainSets(prompt) ==
    IF ~streaming_output THEN {{}}
    ELSE IF prompt THEN {k_output} ELSE SUBSET k_output

\* EndPicture returns: the status and the result of v4l2_queue_bitstream
ep_return(call, r) == [call EXCEPT !.ret = r]

\* v4l2_EndPicture up to the search for a free OUTPUT buffer
EndPictureEnter(prompt) ==
    /\ pc = "idle"
    /\ context = "alive"
    /\ context_mutex = NoThread
    /\ context_mutex' = Decoder
    /\ in_picture
    /\ IF Len(bitstream) = 0
       THEN /\ pc' = "dequeue"
            /\ ep' = NoCall
            /\ UNCHANGED << drv_vars, output_queued, k_output, status >>
       ELSE \E R \in DrainSets(prompt) :
              LET q == reclaim_output_buffers(output_queued, R)
                  idx == find_output_buffer(q)
                  call == [NoCall EXCEPT
                             !.buf_idx = idx,
                             !.retries = WaitRetries,
                             !.drained = Cardinality(R),
                             !.full = streaming_output /\
                                      \A i \in OutputIdx : output_queued[i]]
              IN  /\ output_queued' = q
                  /\ k_output' = k_output \ R
                  /\ IF idx >= 0
                     THEN pc' = "queue" /\ ep' = call /\ UNCHANGED status
                     ELSE IF streaming_output
                     THEN pc' = "wait" /\ ep' = call /\ UNCHANGED status
                     ELSE /\ pc' = "ret"
                          /\ ep' = ep_return(call, -1)
                          /\ status' = "OPERATION_FAILED"
    /\ UNCHANGED << drv_vars, res_vars, lock_vars, capture_fd, k_streaming, codec, begin_released, slices_delivered, streaming_output, streaming_capture,
                    num_capture_buffers, capture_queued, k_capture,
                    render_target, bitstream, last_slice_count, h264, hevc,
                    hevc_last, surfaces, images, sync, in_picture,
                    slice_data_seen, hdr_in_kernel >>

\* what VIDIOC_DQBUF on the OUTPUT queue can answer in the wait loop: a
\* completed buffer, -1 for EAGAIN, -2 for another error
WaitAnswers == k_output \cup {-1, -2}

\* wait_continues with the test  retries-- >= 0
wait_continues_once_more(call) == call.buf_idx < 0 /\ call.retries >= 0

\* the loop condition  while (buf_idx < 0 && retries-- > 0)
wait_continues(call) == call.buf_idx < 0 /\ call.retries > 0

\* one iteration of the wait loop of v4l2_queue_bitstream
WaitPoll ==
    /\ pc = "wait"
    /\ wait_continues(ep)
    /\ \E a \in WaitAnswers :
         LET polled == [ep EXCEPT !.retries = ep.retries - 1,
                                  !.wait_polls = ep.wait_polls + 1]
         IN  IF a \in k_output
             THEN /\ output_queued' = [output_queued EXCEPT ![a] = FALSE]
                  /\ k_output' = k_output \ {a}
                  /\ ep' = [polled EXCEPT !.buf_idx = a, !.reclaimed = a]
                  /\ pc' = "queue"
                  /\ UNCHANGED status
             ELSE /\ UNCHANGED << drv_vars, output_queued, k_output >>
                  /\ IF a = -1 /\ wait_continues(polled)
                     THEN pc' = "wait" /\ ep' = polled /\ UNCHANGED status
                     ELSE /\ pc' = "ret"
                          /\ ep' = ep_return(polled, -1)
                          /\ status' = "OPERATION_FAILED"
    /\ UNCHANGED << drv_vars, ext_vars, codec, begin_released, slices_delivered, streaming_output, streaming_capture,
                    num_capture_buffers, capture_queued, k_capture,
                    render_target, bitstream, last_slice_count, h264, hevc,
                    hevc_last, surfaces, images, sync, in_picture,
                    slice_data_seen, hdr_in_kernel >>

\* how the copy, VIDIOC_QBUF and the first VIDIOC_STREAMON can end
QueueAnswers ==
    {"too large", "QBUF failed", "ok"} \cup
    (IF streaming_output THEN {} ELSE {"STREAMON failed"})

\* the bitstream just enqueued carries the headers the session caches
carries_headers(bb) ==
    CachedHeaders # {} /\ NoPic \notin { h.v : h \in CachedHeaders }
    /\ CachedHeaders \subseteq Chunks(bb)

\* v4l2_queue_bitstream from the copy into the buffer to the first STREAMON
QueueBuffer ==
    /\ pc = "queue"
    /\ \E a \in QueueAnswers :
         IF a \in {"too large", "QBUF failed"}
         THEN /\ pc' = "ret"
              /\ ep' = ep_return(ep, -1)
              /\ status' = "OPERATION_FAILED"
              /\ UNCHANGED << drv_vars, output_queued, k_output, streaming_output,
                              k_streaming, hdr_in_kernel >>
         ELSE /\ output_queued' = [output_queued EXCEPT ![ep.buf_idx] = TRUE]
              /\ k_output' = k_output \cup {ep.buf_idx}
              /\ hdr_in_kernel' = (hdr_in_kernel \/ carries_headers(bitstream))
              /\ IF streaming_output
                 THEN /\ pc' = "dequeue"
                      /\ ep' = [ep EXCEPT !.enqueued = TRUE]
                      /\ UNCHANGED << drv_vars, streaming_output, k_streaming, status >>
                 ELSE IF a = "STREAMON failed"
                 THEN /\ pc' = "ret"
                      /\ ep' = ep_return(issue([ep EXCEPT !.enqueued = TRUE],
                                               Ioctl("STREAMON_OUTPUT", 0)), -1)
                      /\ status' = "OPERATION_FAILED"
                      /\ UNCHANGED << drv_vars, streaming_output, k_streaming >>
                 ELSE /\ streaming_output' = TRUE
                      /\ k_streaming' = k_streaming \cup {"OUTPUT"}
                      /\ pc' = "event"
                      /\ ep' = issue([ep EXCEPT !.enqueued = TRUE],
                                     Ioctl("STREAMON_OUTPUT", 0))
                      /\ UNCHANGED status
    /\ UNCHANGED << drv_vars, res_vars, lock_vars, capture_fd, context_mutex, codec, begin_released, slices_delivered, streaming_capture, num_capture_buffers,
                    capture_queued, k_capture, render_target, bitstream,
                    last_slice_count, h264, hevc, hevc_last, surfaces, images,
                    sync, in_picture, slice_data_seen >>

\* what VIDIOC_DQEVENT can answer.  Events of another type (EOS) are not
\* counted by the loop; the model lets the kernel deliver MaxOtherEvents.
\* A quick kernel has the answer ready: SOURCE_CHANGE or an error.
EventAnswers(call, quick) ==
    IF quick THEN {"SOURCE_CHANGE", "error"}
    ELSE {"SOURCE_CHANGE", "ENOENT", "error"} \cup
         (IF call.event_polls - call.wait_count < MaxOtherEvents THEN {"EOS"} ELSE {})

\* the loop condition  while (wait_count < 100)
event_wait_continues(call) == call.wait_count < EventWaitLimit

\* the locals after one VIDIOC_DQEVENT answered a
event_poll(call, a) ==
    [call EXCEPT !.event_polls = call.event_polls + 1,
                 !.wait_count = IF a = "ENOENT" THEN call.wait_count + 1
                                ELSE call.wait_count]

\* one iteration of the wait for SOURCE_CHANGE of v4l2_queue_bitstream
EventPoll(quick) ==
    /\ pc = "event"
    /\ event_wait_continues(ep)
    /\ \E a \in EventAnswers(ep, quick) :
         /\ ep' = issue(event_poll(ep, a), Ioctl("DQEVENT", 0))
         /\ pc' = IF a \in {"SOURCE_CHANGE", "error"} \/ ~event_wait_continues(ep')
                  THEN "capture" ELSE "event"
    /\ UNCHANGED << drv_vars, ext_vars, codec, begin_released, slices_delivered, streaming_output, streaming_capture, output_queued,
                    num_capture_buffers, capture_queued, k_output, k_capture,
                    render_target, bitstream, last_slice_count, h264, hevc,
                    hevc_last, surfaces, images, sync, status, in_picture,
                    slice_data_seen, hdr_in_kernel >>

\* how v4l2_setup_capture_queue and the CAPTURE VIDIOC_STREAMON can end
CaptureAnswers == {"S_FMT failed", "REQBUFS failed", "STREAMON failed", "ok"}

\* whether VIDIOC_G_FMT on the CAPTURE queue succeeds; VIDIOC_S_FMT is only
\* called, and can only fail, after VIDIOC_G_FMT failed
FormatAnswers(a) == IF a = "S_FMT failed" THEN {FALSE} ELSE {TRUE, FALSE}

\* the loop "Queue all CAPTURE buffers": VIDIOC_QUERYBUF and VIDIOC_QBUF of
\* each of the n buffers the kernel granted
queue_all_capture(n) ==
    [j \in 1 .. 2 * n |-> IF j % 2 = 1 THEN Ioctl("QUERYBUF", (j - 1) \div 2)
                                       ELSE Ioctl("QBUF", (j \div 2) - 1)]

\* setup_capture_calls with the buffers requested before the format is known
setup_capture_calls_reqbufs_first(gfmt, a, n) ==
    << Ioctl("REQBUFS", MAX_CAPTURE_BUFFERS), Ioctl("G_FMT", 0) >>
       \o (IF gfmt THEN << >> ELSE << Ioctl("S_FMT", 0) >>)
       \o (IF a \in {"S_FMT failed", "REQBUFS failed"} THEN << >>
           ELSE queue_all_capture(n))

\* the ioctls of v4l2_setup_capture_queue, in the order it issues them
setup_capture_calls(gfmt, a, n) ==
    << Ioctl("G_FMT", 0) >>
       \o (IF gfmt THEN << >> ELSE << Ioctl("S_FMT", 0) >>)
       \o (IF a = "S_FMT failed" THEN << >>
           ELSE << Ioctl("REQBUFS", MAX_CAPTURE_BUFFERS) >>)
       \o (IF a \in {"S_FMT failed", "REQBUFS failed"} THEN << >>
           ELSE queue_all_capture(n))

\* the locals of v4l2_queue_bitstream after v4l2_setup_capture_queue and,
\* when that succeeded, the CAPTURE VIDIOC_STREAMON
capture_issued(call, gfmt, a, n) ==
    LET done == [call EXCEPT !.kcalls = call.kcalls \o setup_capture_calls(gfmt, a, n)]
    IN  IF a \in {"S_FMT failed", "REQBUFS failed"} THEN done
        ELSE issue(done, Ioctl("STREAMON_CAPTURE", 0))

\* setup_capture_queued marking every buffer queued, accepted or not
setup_capture_queued_all(A) == [i \in CaptureIdx |-> TRUE]

\* v4l2_setup_capture_queue: the descriptors after the kernel accepted A
setup_capture_queued(A) == [i \in CaptureIdx |-> i \in A]

\* v4l2_setup_capture_queue: no buffer of the n granted is exported yet
setup_capture_fd(fds, n) == [i \in CaptureIdx |-> IF i < n THEN -1 ELSE fds[i]]

\* v4l2_setup_capture_queue and the CAPTURE stream-on of v4l2_queue_bitstream
SetupCapture ==
    /\ pc = "capture"
    /\ \E a \in CaptureAnswers : \E gfmt \in FormatAnswers(a) :
         IF a \in {"S_FMT failed", "REQBUFS failed"}
         THEN /\ pc' = "ret"
              /\ ep' = ep_return(capture_issued(ep, gfmt, a, 0), -1)
              /\ status' = "OPERATION_FAILED"
              /\ UNCHANGED << drv_vars, num_capture_buffers, capture_queued, k_capture,
                              streaming_capture, capture_fd, k_streaming >>
         ELSE \E A \in SUBSET CaptureIdx :
              /\ num_capture_buffers' = GrantedCapture
              /\ capture_queued' = setup_capture_queued(A)
              /\ capture_fd' = setup_capture_fd(capture_fd, GrantedCapture)
              /\ k_capture' = A
              /\ IF a = "STREAMON failed"
                 THEN /\ pc' = "ret"
                      /\ ep' = ep_return(capture_issued(ep, gfmt, a, GrantedCapture), -1)
                      /\ status' = "OPERATION_FAILED"
                      /\ UNCHANGED << drv_vars, streaming_capture, k_streaming >>
                 ELSE /\ streaming_capture' = TRUE
                      /\ k_streaming' = k_streaming \cup {"CAPTURE"}
                      /\ pc' = "dequeue"
                      /\ ep' = capture_issued(ep, gfmt, a, GrantedCapture)
                      /\ UNCHANGED status
    /\ UNCHANGED << drv_vars, res_vars, lock_vars, context_mutex, codec, begin_released, slices_delivered, streaming_output, output_queued, k_output,
                    render_target, bitstream, last_slice_count, h264, hevc,
                    hevc_last, surfaces, images, sync, in_picture,
                    slice_data_seen, hdr_in_kernel >>

\* v4l2_EndPicture: "Try to dequeue a decoded frame", then return success
DequeueFrame ==
    /\ pc = "dequeue"
    /\ \E b \in DequeueAnswers :
         IF render_target # -1
         THEN dequeue_frame(render_target, b)
         ELSE UNCHANGED << drv_vars, surfaces, capture_queued, k_capture >>
    /\ pc' = "ret"
    /\ ep' = ep_return(ep, 0)
    /\ status' = "SUCCESS"
    /\ UNCHANGED << drv_vars, ext_vars, codec, begin_released, slices_delivered, streaming_output, streaming_capture, output_queued,
                    num_capture_buffers, k_output, render_target, bitstream,
                    last_slice_count, h264, hevc, hevc_last, images, sync,
                    in_picture, slice_data_seen, hdr_in_kernel >>

\* v4l2_EndPicture has returned: its locals are gone
EndPictureReturn ==
    /\ pc = "ret"
    /\ pc' = "idle"
    /\ ep' = NoCall
    /\ in_picture' = FALSE
    /\ begin_released' = -1
    /\ context_mutex' = NoThread
    /\ UNCHANGED << drv_vars, res_vars, lock_vars, capture_fd, k_streaming, codec, slices_delivered, streaming_output, streaming_capture, output_queued,
                    num_capture_buffers, capture_queued, k_output, k_capture,
                    render_target, bitstream, last_slice_count, h264, hevc,
                    hevc_last, surfaces, images, sync, status, slice_data_seen,
                    hdr_in_kernel >>


(* --------------------------- SyncSurface -------------------------------- *)

\* v4l2_SyncSurface on a valid surface, up to its loop
SyncSurfaceEnter(s) ==
    /\ sync.pc = "idle"
    /\ surfaces[s].alive
    /\ IF ~surfaces[s].context
       THEN /\ surfaces' = [surfaces EXCEPT ![s].decoded = TRUE]
            /\ sync' = [NoSync EXCEPT !.s = s, !.pc = "ret"]
            /\ status' = "SUCCESS"
       ELSE /\ sync' = [NoSync EXCEPT !.s = s, !.pc = "loop",
                                      !.retries = SyncRetries]
            /\ UNCHANGED << drv_vars, surfaces, status >>
    /\ UNCHANGED << drv_vars, ext_vars, session_vars, images >>

\* sync_continues with the test  retries-- >= 0
sync_continues_once_more(sf, sy) == ~sf.decoded /\ sy.retries >= 0

\* the loop condition  while (!surface->decoded && retries-- > 0)
sync_continues(sf, sy) == ~sf.decoded /\ sy.retries > 0

\* one iteration of the loop of v4l2_SyncSurface: v4l2_dequeue_frame under
\* the session mutex, then the 10 ms timed wait on the surface's condition
SyncSurfaceAttempt ==
    /\ sync.pc = "loop"
    /\ pc = "idle"
    /\ context_mutex = NoThread
    /\ sync_continues(surfaces[sync.s], sync)
    /\ \E b \in DequeueAnswers : dequeue_frame(sync.s, b)
    /\ sync' = [sync EXCEPT !.retries = sync.retries - 1,
                            !.attempts = sync.attempts + 1]
    /\ UNCHANGED << drv_vars, ext_vars, codec, begin_released, slices_delivered, streaming_output, streaming_capture, output_queued,
                    num_capture_buffers, k_output, render_target, bitstream,
                    last_slice_count, h264, hevc, hevc_last, images, pc, ep,
                    status, in_picture, slice_data_seen, hdr_in_kernel >>

\* sync_exit_surface that leaves the surface as the loop left it
sync_exit_surface_unmarked(sf) == sf

\* "Mark as ready after timeout to prevent hangs"
sync_exit_surface(sf) == [sf EXCEPT !.decoded = TRUE]

\* v4l2_SyncSurface after its loop: "Mark as ready after timeout"
SyncSurfaceExit ==
    /\ sync.pc = "loop"
    /\ ~sync_continues(surfaces[sync.s], sync)
    /\ surfaces' = [surfaces EXCEPT ![sync.s] = sync_exit_surface(surfaces[sync.s])]
    /\ sync' = [sync EXCEPT !.pc = "ret"]
    /\ status' = "SUCCESS"
    /\ UNCHANGED << drv_vars, ext_vars, session_vars, images >>

\* v4l2_SyncSurface has returned
SyncSurfaceReturn ==
    /\ sync.pc = "ret"
    /\ sync' = NoSync
    /\ UNCHANGED << drv_vars, ext_vars, session_vars, surfaces, images, status >>

(* ---------------------- SyncSurface, lock by lock ----------------------- *)

\* the thread takes mutex m[s]
sync_acquire_surface(m, s, t) == [m EXCEPT ![s] = t]

\* sync_release_surface that keeps the surface's mutex locked
sync_keep_surface(m, s) == m

\* pthread_mutex_unlock(&surface->mutex)
sync_release_surface(m, s) == [m EXCEPT ![s] = NoThread]

\* thread t calls v4l2_SyncSurface on a valid surface and reaches
\* pthread_mutex_lock(&surface->mutex)
SyncCall(t, s) ==
    /\ thr[t].pc = "idle"
    /\ surfaces[s].alive
    /\ thr' = [thr EXCEPT ![t] = [pc |-> "lock", s |-> s, retries |-> 0]]
    /\ UNCHANGED << drv_vars, res_vars, capture_fd, k_streaming, context_mutex,
                    surface_mutex, session_vars, surfaces, images, sync, status >>

\* thread t gets the surface's mutex; a surface without a context is ready
\* at once
SyncLock(t) ==
    /\ thr[t].pc = "lock"
    /\ surface_mutex[thr[t].s] = NoThread
    /\ IF ~surfaces[thr[t].s].context
       THEN /\ surfaces' = [surfaces EXCEPT ![thr[t].s].decoded = TRUE]
            /\ thr' = [thr EXCEPT ![t] = NoThr]
            /\ status' = "SUCCESS"
            /\ UNCHANGED surface_mutex
       ELSE /\ surface_mutex' = sync_acquire_surface(surface_mutex, thr[t].s, t)
            /\ thr' = [thr EXCEPT ![t].pc = "test", ![t].retries = SyncRetries]
            /\ UNCHANGED << drv_vars, surfaces, status >>
    /\ UNCHANGED << drv_vars, res_vars, capture_fd, k_streaming, context_mutex,
                    session_vars, images, sync >>

\* thread t, holding the surface's mutex, tests the loop condition: it
\* unlocks the surface and goes for the session, or marks the surface ready,
\* unlocks it and returns
SyncTest(t) ==
    /\ thr[t].pc = "test"
    /\ IF sync_continues(surfaces[thr[t].s], thr[t])
       THEN /\ surface_mutex' = sync_release_surface(surface_mutex, thr[t].s)
            /\ thr' = [thr EXCEPT ![t].pc = "want_ctx",
                                  ![t].retries = thr[t].retries - 1]
            /\ UNCHANGED << drv_vars, surfaces, status >>
       ELSE /\ surfaces' = [surfaces EXCEPT ![thr[t].s].decoded = TRUE]
            /\ surface_mutex' = [surface_mutex EXCEPT ![thr[t].s] = NoThread]
            /\ thr' = [thr EXCEPT ![t] = NoThr]
            /\ status' = "SUCCESS"
    /\ UNCHANGED << drv_vars, res_vars, capture_fd, k_streaming, context_mutex,
                    session_vars, images, sync >>

\* thread t gets the session's mutex
SyncLockContext(t) ==
    /\ thr[t].pc = "want_ctx"
    /\ context_mutex = NoThread
    /\ context_mutex' = t
    /\ thr' = [thr EXCEPT ![t].pc = "in_ctx"]
    /\ UNCHANGED << drv_vars, res_vars, capture_fd, k_streaming, surface_mutex,
                    session_vars, surfaces, images, sync, status >>

\* thread t, holding the session's mutex: v4l2_dequeue_frame, then unlock
SyncDequeue(t) ==
    /\ thr[t].pc = "in_ctx"
    /\ \E b \in DequeueAnswers : dequeue_frame(thr[t].s, b)
    /\ context_mutex' = NoThread
    /\ thr' = [thr EXCEPT ![t].pc = "relock"]
    /\ UNCHANGED << drv_vars, res_vars, capture_fd, k_streaming, surface_mutex, codec,
                    begin_released, slices_delivered, streaming_output,
                    streaming_capture, output_queued, num_capture_buffers,
                    k_output, render_target, bitstream, last_slice_count,
                    h264, hevc, hevc_last, images, pc, ep, sync, status,
                    in_picture, slice_data_seen, hdr_in_kernel >>

\* thread t gets the surface's mutex again; while the surface is not
\* decoded it enters pthread_cond_timedwait, which unlocks the mutex
SyncRelock(t) ==
    /\ thr[t].pc = "relock"
    /\ surface_mutex[thr[t].s] = NoThread
    /\ IF surfaces[thr[t].s].decoded
       THEN /\ surface_mutex' = sync_acquire_surface(surface_mutex, thr[t].s, t)
            /\ thr' = [thr EXCEPT ![t].pc = "test"]
       ELSE /\ thr' = [thr EXCEPT ![t].pc = "waiting"]
            /\ UNCHANGED surface_mutex
    /\ UNCHANGED << drv_vars, res_vars, capture_fd, k_streaming, context_mutex,
                    session_vars, surfaces, images, sync, status >>

\* the 10 ms of pthread_cond_timedwait are over (nothing signals the
\* condition): it returns once it has the surface's mutex again
SyncWake(t) ==
    /\ thr[t].pc = "waiting"
    /\ surface_mutex[thr[t].s] = NoThread
    /\ surface_mutex' = sync_acquire_surface(surface_mutex, thr[t].s, t)
    /\ thr' = [thr EXCEPT ![t].pc = "test"]
    /\ UNCHANGED << drv_vars, res_vars, capture_fd, k_streaming, context_mutex,
                    session_vars, surfaces, images, sync, status >>

(* ------------------------- derived images ------------------------------- *)

\* v4l2_DeriveImage on a valid surface
DeriveImage(s) ==
    /\ pc = "idle"
    /\ surfaces[s].alive
    /\ FirstFree(images, ImageIds) # -1
    /\ IF ~surfaces[s].context
       THEN status' = "INVALID_SURFACE" /\ UNCHANGED images
       ELSE IF surfaces[s].capture_idx < 0
       THEN status' = "SURFACE_BUSY" /\ UNCHANGED images
       ELSE /\ images' = [images EXCEPT ![FirstFree(images, ImageIds)] = NewImage(s)]
            /\ status' = "SUCCESS"
    /\ UNCHANGED << drv_vars, ext_vars, session_vars, surfaces, sync >>

\* how VIDIOC_QUERYBUF and mmap can end in v4l2_MapBuffer
MapAnswers == {"QUERYBUF failed", "mmap failed", "ok"}

\* v4l2_MapBuffer on an image buffer
MapBuffer(i) ==
    /\ pc = "idle"
    /\ images[i].alive
    /\ LET im == images[i]
           s == im.surface_id
       IN  IF im.mapped
           THEN status' = "SUCCESS" /\ UNCHANGED images
           ELSE IF ~get_surface(s) \/ ~surfaces[s].context
                   \/ surfaces[s].capture_idx < 0
           THEN status' = "INVALID_BUFFER" /\ UNCHANGED images
           ELSE \E a \in MapAnswers :
                  /\ images' = [images EXCEPT ![i] =
                        [im EXCEPT !.capture_idx = surfaces[s].capture_idx,
                                   !.in_use = TRUE,
                                   !.mapped = (a = "ok")]]
                  /\ status' = IF a = "ok" THEN "SUCCESS" ELSE "OPERATION_FAILED"
    /\ UNCHANGED << drv_vars, ext_vars, session_vars, surfaces, sync >>

\* the test of v4l2_UnmapBuffer that hands the CAPTURE buffer back
unmap_release(im) ==
    /\ get_surface(im.surface_id)
    /\ surfaces[im.surface_id].context
    /\ im.capture_idx >= 0

\* the image buffer as v4l2_UnmapBuffer leaves it
unmap_image(im) == [im EXCEPT !.mapped = FALSE, !.capture_idx = -1,
                              !.in_use = FALSE]

\* v4l2_UnmapBuffer on an image buffer
UnmapBuffer(i) ==
    /\ pc = "idle"
    /\ images[i].alive
    /\ IF images[i].surface_id # -1 /\ images[i].mapped
       THEN /\ capture_queued' = IF unmap_release(images[i])
                                 THEN requeue_queued(capture_queued, images[i].capture_idx)
                                 ELSE capture_queued
            /\ k_capture' = IF unmap_release(images[i])
                            THEN requeue_kernel(k_capture, images[i].capture_idx)
                            ELSE k_capture
            /\ images' = [images EXCEPT ![i] = unmap_image(images[i])]
       ELSE UNCHANGED << drv_vars, capture_queued, k_capture, images >>
    /\ status' = "SUCCESS"
    /\ UNCHANGED << drv_vars, ext_vars, codec, begin_released, slices_delivered, streaming_output, streaming_capture, output_queued,
                    num_capture_buffers, k_output, render_target, bitstream,
                    last_slice_count, h264, hevc, hevc_last, surfaces, pc, ep,
                    sync, in_picture, slice_data_seen, hdr_in_kernel >>

\* v4l2_DestroyBuffer on an image buffer: deferred while in_use
DestroyBuffer(i) ==
    /\ pc = "idle"
    /\ images[i].alive
    /\ images' = IF images[i].in_use THEN images
                 ELSE [images EXCEPT ![i] = NoImage]
    /\ destroy_deferred' = IF images[i].in_use THEN destroy_deferred \cup {i}
                           ELSE destroy_deferred \ {i}
    /\ status' = "SUCCESS"
    /\ UNCHANGED << drv_vars, context, open_res, plane_mapped, other_hevc, capture_fd,
                    k_streaming, context_mutex, lock_vars, session_vars,
                    surfaces, sync >>

(* ------------------ creation, export, readback, destruction ------------- *)

\* how v4l2_open_device and v4l2_setup_output_queue can end: the step that
\* failed and, for VIDIOC_QUERYBUF and mmap, the OUTPUT buffer it failed at
CreateAnswers ==
    { [end |-> e, at |-> 0] : e \in {"open failed", "S_FMT failed", "REQBUFS failed", "ok"} }
    \cup { [end |-> e, at |-> i] : e \in {"QUERYBUF failed", "mmap failed"}, i \in OutputIdx }

\* the mappings v4l2_setup_output_queue made before it ended with a; those
\* of a creation that failed belong to no session
create_mapped(a) ==
    IF a.end = "ok" THEN { OutMap(i) : i \in OutputIdx }
    ELSE IF a.end \in {"QUERYBUF failed", "mmap failed"}
    THEN { LostMap(i) : i \in 0 .. a.at - 1 }
    ELSE {}

\* v4l2_CreateContext on a valid config: on a failure the device is closed
\* and the context freed, the mappings already made are not undone
CreateContext ==
    /\ context = "none"
    /\ \E a \in CreateAnswers :
         /\ context' = IF a.end = "ok" THEN "alive" ELSE "none"
         /\ open_res' = open_res \cup create_mapped(a)
                          \cup (IF a.end = "ok" THEN { Fd(lowest_fd(open_res)) } ELSE {})
         /\ status' = IF a.end = "ok" THEN "SUCCESS" ELSE "OPERATION_FAILED"
    /\ UNCHANGED << drv_vars, plane_mapped, other_hevc, destroy_deferred, capture_fd,
                    k_streaming, context_mutex, lock_vars, session_vars,
                    surfaces, images, sync >>

\* the memory types a consumer can pass to ExportSurfaceHandle
MemTypes == {"DRM_PRIME", "DRM_PRIME_2", "VA"}

\* the descriptors the session exported that are still open (the device is
\* the first descriptor the process opens)
exported(res) == { r \in res : r[1] = "fd" } \ { Fd(0) }

\* the resources a session opened that are still open
session_opened(res) == { r \in res : r[1] # "lostmap" }

\* v4l2_export_dmabuf: the descriptor table after VIDIOC_EXPBUF returned fd
export_dmabuf(fds, idx, fd) == [fds EXCEPT ![idx] = fd]

\* the width and height of the surfaces of vaCreateSurfaces
SurfaceWidth == 1920
SurfaceHeight == 1088

\* v4l2_ExportSurfaceHandle, "Simple DRM PRIME export": the NV12 descriptor
\* of a surface of the given size whose CAPTURE buffer was exported as fd
prime_descriptor(width, height, fd) ==
    [filled |-> TRUE, fourcc |-> "NV12", width |-> width, height |-> height,
     num_objects |-> 1, fd |-> fd, size |-> (width * height * 3) \div 2,
     modifier |-> "LINEAR", num_layers |-> 2,
     layers |-> << [drm_format |-> "R8", num_planes |-> 1, object_index |-> 0,
                    offset |-> 0, pitch |-> width],
                   [drm_format |-> "RG88", num_planes |-> 1, object_index |-> 0,
                    offset |-> width * height, pitch |-> width] >>]

\* v4l2_ExportSurfaceHandle on a valid surface.  It takes no lock: it runs
\* whatever the decoding thread is doing.
ExportSurfaceHandle(s, mem) ==
    /\ context = "alive"
    /\ surfaces[s].alive
    /\ Cardinality(exported(open_res)) < MaxExports
    /\ IF mem \notin {"DRM_PRIME", "DRM_PRIME_2"}
       THEN /\ status' = "UNSUPPORTED_MEMORY_TYPE"
            /\ UNCHANGED << descriptor, open_res, capture_fd >>
       ELSE IF ~surfaces[s].context \/ surfaces[s].capture_idx < 0
       THEN /\ status' = "INVALID_SURFACE"
            /\ UNCHANGED << descriptor, open_res, capture_fd >>
       ELSE \E ok \in BOOLEAN :
              IF ok
              THEN /\ open_res' = open_res \cup { Fd(lowest_fd(open_res)) }
                   /\ capture_fd' = export_dmabuf(capture_fd, surfaces[s].capture_idx,
                                                   lowest_fd(open_res))
                   /\ descriptor' =
                          IF mem = "DRM_PRIME"
                          THEN prime_descriptor(SurfaceWidth, SurfaceHeight,
                                                lowest_fd(open_res))
                          ELSE descriptor
                   /\ status' = "SUCCESS"
              ELSE /\ status' = "OPERATION_FAILED"
                   /\ UNCHANGED << descriptor, open_res, capture_fd >>
    /\ UNCHANGED << configs, supported_profiles, gen_vars, aux_vars, context,
                    plane_mapped,
                    other_hevc, destroy_deferred, k_streaming, context_mutex,
                    lock_vars, session_vars, surfaces, images, sync >>

\* how VIDIOC_QUERYBUF and the two mmap calls of v4l2_GetImage can end
GetImageAnswers == {"QUERYBUF failed", "mmap Y failed", "mmap UV failed", "ok"}

\* v4l2_GetImage: "Cache the mmap pointers" of CAPTURE buffer idx
cache_planes(pm, idx) == [pm EXCEPT ![idx] = TRUE]

\* the image of a vaCreateImage(width, height) as v4l2_CreateImage builds
\* its buffer
create_image(width, height) ==
    [width |-> width, height |-> height, data_size |-> (width * height * 3) \div 2]

\* planes[0].length and planes[1].length of a CAPTURE buffer of the surfaces
Plane0Len == SurfaceWidth * SurfaceHeight
Plane1Len == (SurfaceWidth * SurfaceHeight) \div 2

\* "Use image buffer dimensions for copy"
img_width(img) == IF img.width # 0 THEN img.width ELSE SurfaceWidth
img_height(img) == IF img.height # 0 THEN img.height ELSE SurfaceHeight

\* the two memcpy calls of v4l2_GetImage: y_size bytes from the Y mapping to
\* data, uv_size bytes from the UV mapping to data + y_size.  A copy that
\* reads past a mapping or writes past data is undefined: it completes over
\* foreign memory, or the process is stopped in it.
get_image_copy(img) ==
    LET y_size == img_width(img) * img_height(img)
        uv_size == y_size \div 2
    IN  IF y_size <= Plane0Len /\ uv_size <= Plane1Len
           /\ y_size + uv_size <= img.data_size
        THEN { [y |-> y_size, uv |-> uv_size, overrun |-> FALSE] }
        ELSE { [y |-> y_size, uv |-> uv_size, overrun |-> TRUE],
               [y |-> 0, uv |-> 0, overrun |-> TRUE] }

\* v4l2_GetImage on a valid surface and the image img of a vaCreateImage.
\* It takes no lock either.
GetImage(s, img) ==
    /\ context = "alive"
    /\ surfaces[s].alive
    /\ IF ~surfaces[s].decoded \/ ~surfaces[s].context
       THEN status' = "SURFACE_BUSY" /\ UNCHANGED << open_res, plane_mapped, image_data >>
       ELSE IF surfaces[s].capture_idx < 0
               \/ surfaces[s].capture_idx >= num_capture_buffers
       THEN status' = "INVALID_SURFACE" /\ UNCHANGED << open_res, plane_mapped, image_data >>
       ELSE \E a \in IF plane_mapped[surfaces[s].capture_idx] THEN {"cached"}
                     ELSE GetImageAnswers :
              IF a \in {"cached", "ok"}
              THEN /\ plane_mapped' = IF a = "cached" THEN plane_mapped
                                      ELSE cache_planes(plane_mapped, surfaces[s].capture_idx)
                   /\ open_res' = IF a = "cached" THEN open_res
                                  ELSE open_res \cup PlaneMaps(surfaces[s].capture_idx)
                   /\ \E copy \in get_image_copy(img) :
                        /\ image_data' = copy
                        /\ status' = IF copy.overrun /\ copy.y = 0 THEN "SIGSEGV"
                                      ELSE "SUCCESS"
              ELSE /\ status' = "OPERATION_FAILED"
                   /\ UNCHANGED << open_res, plane_mapped, image_data >>
    /\ UNCHANGED << configs, supported_profiles, gen_vars, descriptor,
                    table_vars, context, other_hevc, destroy_deferred,
                    capture_fd, k_streaming, context_mutex, lock_vars,
                    session_vars, surfaces, images, sync >>

\* what v4l2_DestroyContext unmaps and closes
destroy_released(res, n, pm, fds) ==
    { OutMap(i) : i \in OutputIdx }
    \cup UNION { PlaneMaps(b) : b \in { c \in CaptureIdx : c < n /\ pm[c] } }
    \cup { Fd(fds[b]) : b \in { c \in CaptureIdx : c < n /\ fds[c] >= 0 } }
    \cup { Fd(0) }

\* v4l2_DestroyContext on the session's context, called while no other call
\* of the session runs.  Closing the device stops both queues; the freed
\* context is held at the values of a fresh one.
DestroyContext ==
    /\ context = "alive"
    /\ pc = "idle"
    /\ sync.pc = "idle"
    /\ \A t \in SyncThreads : thr[t].pc = "idle"
    /\ context' = "destroyed"
    /\ open_res' = open_res \ destroy_released(open_res, num_capture_buffers,
                                                plane_mapped, capture_fd)
    /\ streaming_output' = FALSE
    /\ streaming_capture' = FALSE
    /\ k_streaming' = {}
    /\ k_output' = {}
    /\ k_capture' = {}
    /\ output_queued' = [i \in OutputIdx |-> FALSE]
    /\ capture_queued' = [i \in CaptureIdx |-> FALSE]
    /\ capture_fd' = [i \in CaptureIdx |-> 0]
    /\ plane_mapped' = [i \in CaptureIdx |-> FALSE]
    /\ num_capture_buffers' = 0
    /\ bitstream' = << >>
    /\ render_target' = -1
    /\ last_slice_count' = 0
    /\ in_picture' = FALSE
    /\ slice_data_seen' = 0
    /\ slices_delivered' = 0
    /\ begin_released' = -1
    /\ hdr_in_kernel' = FALSE
    /\ status' = "SUCCESS"
    /\ UNCHANGED << drv_vars, codec, h264, hevc, hevc_last, surfaces, images, pc, ep,
                    sync, other_hevc, destroy_deferred, context_mutex,
                    lock_vars >>

(* ------------------------ calls with unknown ids ------------------------ *)

\* the entry points and the kind of id the consumer gets wrong
UnknownCalls ==
    { [entry |-> "CreateContext", kind |-> "config"],
      [entry |-> "DestroyContext", kind |-> "context"],
      [entry |-> "BeginPicture", kind |-> "context"],
      [entry |-> "BeginPicture", kind |-> "surface"],
      [entry |-> "RenderPicture", kind |-> "context"],
      [entry |-> "EndPicture", kind |-> "context"],
      [entry |-> "SyncSurface", kind |-> "surface"],
      [entry |-> "DeriveImage", kind |-> "surface"],
      [entry |-> "ExportSurfaceHandle", kind |-> "surface"],
      [entry |-> "MapBuffer", kind |-> "buffer"],
      [entry |-> "UnmapBuffer", kind |-> "buffer"],
      [entry |-> "DestroyBuffer", kind |-> "buffer"],
      [entry |-> "DestroySurfaces", kind |-> "surface"] }

\* the status of the API for an unknown id of the kind
invalid_status(kind) ==
    CASE kind = "config"  -> "INVALID_CONFIG"
      [] kind = "context" -> "INVALID_CONTEXT"
      [] kind = "buffer"  -> "INVALID_BUFFER"
      [] kind = "surface" -> "INVALID_SURFACE"

\* what the entry point returns when get_config / get_context / get_buffer /
\* get_surface finds nothing for the id
unknown_status(c) ==
    IF c.entry \in {"DestroyBuffer", "DestroySurfaces"} THEN "SUCCESS"
    ELSE invalid_status(c.kind)

\* the entry point called with an id that is in none of the driver's
\* tables (for DestroySurfaces: a list of one such id)
UnknownCall(c) ==
    /\ pc = "idle"
    /\ status' = unknown_status(c)
    /\ UNCHANGED << drv_vars, ext_vars, session_vars, surfaces, images, sync >>

\* v4l2_RenderPicture with a list of two buffers: an unknown id, which the
\* loop skips, then slice parameters of n elements
RenderPictureUnknown(n) ==
    /\ pc = "idle"
    /\ context = "alive"
    /\ context_mutex = NoThread
    /\ in_picture
    /\ last_slice_count' = n
    /\ status' = "SUCCESS"
    /\ UNCHANGED << drv_vars, ext_vars, codec, begin_released, slices_delivered, streaming_output, streaming_capture, output_queued,
                    num_capture_buffers, capture_queued, k_output, k_capture,
                    render_target, bitstream, h264, hevc, hevc_last, surfaces,
                    images, pc, ep, sync, in_picture, slice_data_seen,
                    hdr_in_kernel >>

(* -------------------------- specifications ------------------------------ *)

\* Create / Destroy of surfaces
SurfaceCalls ==
    \/ CreateSurfaces
    \/ \E s \in SurfaceIds : DestroySurfaces(s)

\* the image-buffer calls of the consumer thread
ImageCalls ==
    \/ \E s \in SurfaceIds : DeriveImage(s)
    \/ \E i \in ImageIds : MapBuffer(i)
    \/ \E i \in ImageIds : UnmapBuffer(i)
    \/ \E i \in ImageIds : DestroyBuffer(i)

\* SyncSurface, step by step
SyncCalls ==
    \/ \E s \in SurfaceIds : pc = "idle" /\ SyncSurfaceEnter(s)
    \/ SyncSurfaceAttempt
    \/ SyncSurfaceExit
    \/ SyncSurfaceReturn

\* BeginPicture and RenderPicture
PictureCalls ==
    \/ \E s \in SurfaceIds : BeginPicture(s)
    \/ \E pic \in PicParams : RenderPictureParams(pic)
    \/ \E n \in 1 .. MaxSlices : RenderSliceParams(n)
    \/ \E data \in SliceDataBufs(codec) : RenderSliceData(data)

\* EndPicture; prompt: the kernel completes every input buffer at once,
\* quick: it answers VIDIOC_DQEVENT without making the driver wait
EndPictureCalls(prompt, quick) ==
    \/ EndPictureEnter(prompt)
    \/ QueueBuffer
    \/ EventPoll(quick)
    \/ SetupCapture
    \/ DequeueFrame
    \/ EndPictureReturn

\* A VP9 session used through the surface and image API.
Init == InitWith({"VP9"})

Next == SurfaceCalls \/ ImageCalls \/ PictureCalls \/ EndPictureCalls(TRUE, FALSE)

Spec == Init /\ [][Next]_vars

\* A VP9 session whose consumer decodes pictures of one slice in one thread
\* and waits for surfaces with SyncSurface in another; surfaces are created
\* and destroyed while no SyncSurface runs.
NextSync ==
    \/ sync.pc = "idle" /\ SurfaceCalls
    \/ SyncCalls
    \/ \E s \in SurfaceIds : BeginPicture(s)
    \/ RenderSliceParams(1)
    \/ \E data \in [1 .. 1 -> SliceBytes(codec)] : RenderSliceData(data)
    \/ EndPictureCalls(TRUE, TRUE)

SpecSync == Init /\ [][NextSync]_vars

\* A VP9 session on a kernel that completes input buffers when it likes.
NextInput ==
    \/ CreateSurfaces
    \/ \E s \in SurfaceIds : BeginPicture(s)
    \/ \E n \in 1 .. MaxSlices : RenderSliceParams(n)
    \/ \E data \in SliceDataBufs(codec) : RenderSliceData(data)
    \/ EndPictureCalls(FALSE, FALSE)
    \/ WaitPoll

SpecInput == Init /\ [][NextInput]_vars

\* The bitstream assembler.  The consumer renders picture parameters before
\* the session's first slice data, as libva clients do.
NextAsm ==
    \/ CreateSurfaces
    \/ \E s \in SurfaceIds : BeginPicture(s)
    \/ \E pic \in PicParams : RenderPictureParams(pic)
    \/ \E n \in 1 .. MaxSlices : RenderSliceParams(n)
    \/ \E data \in SliceDataBufs(codec) :
          (IF codec = "H264" THEN h264.hdr ELSE hevc.hdr) # NoPic /\ RenderSliceData(data)
    \/ EndPictureCalls(TRUE, TRUE)

\* The assembler of an H.264 session and of an HEVC session.
SpecH264 == InitWith({"H264"}) /\ [][NextAsm]_vars

SpecHevc == InitWith({"HEVC"}) /\ [][NextAsm]_vars

\* A VP9 consumer that passes ids the driver never handed out, between
\* calls on surfaces and pictures without slice data.
NextIds ==
    \/ SurfaceCalls
    \/ \E s \in SurfaceIds : BeginPicture(s)
    \/ \E n \in 1 .. MaxSlices : RenderSliceParams(n)
    \/ EndPictureEnter(TRUE)
    \/ DequeueFrame
    \/ EndPictureReturn
    \/ \E c \in UnknownCalls : UnknownCall(c)
    \/ \E n \in 1 .. MaxSlices : RenderPictureUnknown(n)

SpecIds == Init /\ [][NextIds]_vars

\* A consumer with one thread on a kernel that completes input buffers when
\* it likes: the consumer submits a picture of one slice, then calls
\* SyncSurface on its render target until the surface is decoded, then goes
\* on to the next picture.
target_pending ==
    /\ render_target # -1
    /\ ~in_picture
    /\ surfaces[render_target].alive
    /\ ~surfaces[render_target].decoded

ConsumerSteps ==
    \/ CreateSurfaces
    \/ \E s \in SurfaceIds : ~target_pending /\ sync.pc = "idle" /\ BeginPicture(s)
    \/ RenderSliceParams(1)
    \/ \E data \in [1 .. 1 -> SliceBytes(codec)] : RenderSliceData(data)
    \/ sync.pc = "idle" /\ EndPictureEnter(FALSE)

\* the steps inside EndPicture
EnqueueSteps ==
    \/ WaitPoll
    \/ QueueBuffer
    \/ EventPoll(TRUE)
    \/ SetupCapture
    \/ DequeueFrame
    \/ EndPictureReturn

\* SyncSurface on the render target of the picture just submitted
SyncTarget ==
    \/ target_pending /\ pc = "idle" /\ SyncSurfaceEnter(render_target)
    \/ SyncSurfaceAttempt
    \/ SyncSurfaceExit
    \/ SyncSurfaceReturn

NextLive == ConsumerSteps \/ EnqueueSteps \/ SyncTarget

\* a call that has started goes on; the consumer calls SyncSurface on each
\* render target
SpecLive ==
    Init /\ [][NextLive]_vars /\ WF_vars(EnqueueSteps) /\ WF_vars(SyncTarget)

\* Two HEVC sessions in one process: the pictures of this one (without
\* slice data), the picture parameters the other one receives.
NextShared ==
    \/ CreateSurfaces
    \/ \E s \in SurfaceIds : BeginPicture(s)
    \/ \E pic \in PicParams : RenderPictureParams(pic)
    \/ \E pic \in PicParams : OtherSessionPictureParams(pic)
    \/ EndPictureEnter(TRUE)
    \/ DequeueFrame
    \/ EndPictureReturn

SpecShared == InitWith({"HEVC"}) /\ [][NextShared]_vars

\* The header caches of an H.264 or an HEVC session that receives picture
\* parameters (pictures without slice data).
NextHeaders ==
    \/ CreateSurfaces
    \/ \E s \in SurfaceIds : BeginPicture(s)
    \/ \E pic \in PicParams : RenderPictureParams(pic)
    \/ EndPictureEnter(TRUE)
    \/ DequeueFrame
    \/ EndPictureReturn

SpecHeaders == InitWith({"H264", "HEVC"}) /\ [][NextHeaders]_vars

\* SyncSurface of one thread, lock by lock
SyncSteps(t) ==
    \/ SyncLock(t)
    \/ SyncTest(t)
    \/ SyncLockContext(t)
    \/ SyncDequeue(t)
    \/ SyncRelock(t)
    \/ SyncWake(t)

\* Three threads on one surface of a VP9 session: one begins and ends
\* pictures, the others call SyncSurface.
NextLock ==
    \/ ~surfaces[0].alive /\ CreateSurfaces
    \/ BeginPicture(0)
    \/ RenderSliceParams(1)
    \/ EndPictureEnter(TRUE)
    \/ DequeueFrame
    \/ EndPictureReturn
    \/ \E t \in SyncThreads : SyncCall(t, 0)
    \/ \E t \in SyncThreads : SyncSteps(t)

SpecLock == Init /\ [][NextLock]_vars

\* The life of a VP9 session, from CreateContext to DestroyContext: pictures
\* of one slice on a quick kernel, with exports and readbacks of the
\* surfaces from another thread.
NextLife ==
    \/ CreateContext
    \/ context = "alive" /\ CreateSurfaces
    \/ \E s \in SurfaceIds : BeginPicture(s)
    \/ RenderSliceParams(1)
    \/ \E data \in [1 .. 1 -> SliceBytes(codec)] : RenderSliceData(data)
    \/ EndPictureCalls(TRUE, TRUE)
    \/ \E s \in SurfaceIds, mem \in MemTypes : ExportSurfaceHandle(s, mem)
    \/ \E s \in SurfaceIds : GetImage(s, create_image(SurfaceWidth, SurfaceHeight))
    \/ DestroyContext

SpecLife == InitAt({"VP9"}, "none", {}) /\ [][NextLife]_vars


(* ------------------- ownership of the CAPTURE buffers ------------------- *)

\* no call of the session is in progress
Quiescent == pc = "idle" /\ sync.pc = "idle"

\* the surfaces whose capture_idx names CAPTURE buffer b
Owners(b) == { s \in SurfaceIds : surfaces[s].alive /\ surfaces[s].capture_idx = b }

\* C1: once the CAPTURE queue has been set up and streams, in every state in
\* which no call is in progress each CAPTURE buffer is either queued to the
\* kernel or referenced by the capture_idx of exactly one surface, never
\* both and never neither.
C1_QueuedXorOwned ==
    (Quiescent /\ streaming_capture) =>
        \A b \in CaptureIdx :
            \/ capture_queued[b] /\ Owners(b) = {}
            \/ ~capture_queued[b] /\ Cardinality(Owners(b)) = 1

\* C2: at any time at most one surface has its capture_idx equal to a given
\* CAPTURE buffer index.
C2_AtMostOneOwner == \A b \in CaptureIdx : Cardinality(Owners(b)) <= 1

\* C3: when BeginPicture names a surface still bound to a CAPTURE buffer B1,
\* then in the state BeginPicture leaves, before any slice of the new picture
\* is in the assembly buffer, B1 is queued to the kernel again and the
\* surface's capture_idx is -1.
C3_RecycledBeforeSlices ==
    [][(~in_picture /\ in_picture') =>
          LET sf == surfaces[render_target']
          IN  (sf.context /\ sf.capture_idx >= 0) =>
                  /\ capture_queued'[sf.capture_idx]
                  /\ sf.capture_idx \in k_capture'
                  /\ surfaces'[render_target'].capture_idx = -1
                  /\ bitstream' = << >>]_vars

\* C3 witness: a picture has begun on a surface that held buffer B1; B1 is
\* back with the kernel and nothing has been assembled yet.
C3_Witness ==
    /\ in_picture
    /\ pc = "idle"
    /\ begin_released >= 0
    /\ capture_queued[begin_released]
    /\ surfaces[render_target].capture_idx = -1
    /\ bitstream = << >>


(* ------------------------ header emission ------------------------------- *)

\* the headers-emitted flag of the session's codec
headers_sent == IF codec = "H264" THEN h264.sps_pps_sent ELSE hevc.params_sent

\* the header cache of the session's codec
cached_hdr == IF codec = "H264" THEN h264.hdr ELSE hevc.hdr

IsSlice(c) == c.k = "slice"
IsHeader(c) == c.k \in {"VPS", "SPS", "PPS"}

\* the slice chunks / the header chunks of an assembly buffer, in order
SlicesOf(bb) == SelectSeq(bb, IsSlice)
HeadersOf(bb) == SelectSeq(bb, IsHeader)

\* every slice and header chunk directly follows a start code
StartCoded(bb) ==
    \A i \in 1 .. Len(bb) :
        IF bb[i] = StartCode
        THEN i < Len(bb) /\ bb[i + 1] # StartCode
        ELSE i > 1 /\ bb[i - 1] = StartCode

\* C4: between two pictures, the headers-emitted flag (sps_pps_sent,
\* params_sent) is true only if header NALs identical to the cached headers
\* were enqueued on the kernel's OUTPUT queue since the cache last changed.
C4_SentOnlyAfterEnqueue ==
    (pc = "idle" /\ ~in_picture /\ headers_sent) => hdr_in_kernel

\* C5: picture parameters that change the cached headers clear the
\* headers-emitted flag.
C5_RegenerationClearsFlag ==
    [][/\ (h264.hdr # NoPic /\ h264'.hdr # h264.hdr) => ~h264'.sps_pps_sent
       /\ (hevc.hdr # NoPic /\ hevc'.hdr # hevc.hdr) => ~hevc'.params_sent]_vars

\* a slice-data buffer is rendered into an empty assembly buffer by a session
\* of codec cd that has its headers cached
FirstSliceData(cd) ==
    /\ codec = cd
    /\ cached_hdr # NoPic
    /\ bitstream = << >>
    /\ slice_data_seen' = slice_data_seen + 1

\* the slices of a slice-data buffer that the latched slice parameters name
Delivered(data) == [i \in 1 .. last_slice_count |-> Slice(data[i])]

\* C6: an H.264 session that has its picture parameters assembles a picture
\* of an IDR slice and a non-IDR slice, the first IDR of the session, as
\* start code + SPS, start code + PPS, start code + IDR, start code +
\* non-IDR; once the headers are emitted, slices (IDR included) are appended
\* with their start code only.
C6_H264Assembly ==
    [][FirstSliceData("H264") =>
         \A data \in SliceDataBufs("H264") :
           RenderSliceData(data) =>
              /\ (~h264.sps_pps_sent /\ Delivered(data) = << Slice(101), Slice(65) >>)
                    => bitstream' = << StartCode, Hdr("SPS", h264.hdr),
                                       StartCode, Hdr("PPS", h264.hdr),
                                       StartCode, Slice(101),
                                       StartCode, Slice(65) >>
              /\ h264.sps_pps_sent
                    => /\ HeadersOf(bitstream') = << >>
                       /\ SlicesOf(bitstream') = Delivered(data)
                       /\ StartCoded(bitstream')]_vars

\* C6 witness: the assembly buffer of the session's first IDR picture
C6_Witness ==
    /\ codec = "H264"
    /\ h264.hdr # NoPic
    /\ slices_delivered = 2
    /\ bitstream = << StartCode, Hdr("SPS", h264.hdr), StartCode, Hdr("PPS", h264.hdr),
                      StartCode, Slice(101), StartCode, Slice(65) >>

IsHevcKeyframe(c) ==
    /\ c.k = "slice"
    /\ hevc_nal_type(c.b) >= HEVC_NAL_IDR_W_RADL
    /\ hevc_nal_type(c.b) <= HEVC_NAL_CRA_NUT

IsHevcParameterSet(c) ==
    c.k = "slice" /\ hevc_nal_type(c.b) \in {HEVC_NAL_VPS, HEVC_NAL_SPS, HEVC_NAL_PPS}

IsNoParameterSet(c) == ~IsHevcParameterSet(c)

\* the synthesised VPS, SPS, PPS stand directly before position i of bb
HeadersBefore(bb, i) ==
    /\ i > 7
    /\ SubSeq(bb, i - 7, i - 1) =
          << StartCode, Hdr("VPS", hevc.hdr), StartCode, Hdr("SPS", hevc.hdr),
             StartCode, Hdr("PPS", hevc.hdr), StartCode >>

C8_SyncBounded ==
    [][/\ sync'.attempts <= SyncRetries
       /\ (sync.pc = "loop" /\ pc = "idle")
             => ENABLED (SyncSurfaceAttempt \/ SyncSurfaceExit)
       /\ (sync.pc = "loop" /\ sync'.pc = "loop" /\ sync' # sync)
             => /\ sync'.retries = sync.retries - 1
                /\ sync'.attempts = sync.attempts + 1
       /\ (sync.pc # "ret" /\ sync'.pc = "ret")
             => /\ status' = "SUCCESS"
                /\ surfaces'[sync'.s].alive
                /\ surfaces'[sync'.s].decoded]_vars

\* C8 witness: SyncSurface returns after 50 attempts on a surface for which
\* the kernel never produced a frame
C8_Witness ==
    /\ sync.pc = "ret"
    /\ sync.attempts = SyncRetries
    /\ surfaces[sync.s].capture_idx = -1
    /\ surfaces[sync.s].decoded
    /\ status = "SUCCESS"


(* ------------------------- bounded waits -------------------------------- *)

\* C9: the wait for SOURCE_CHANGE after the OUTPUT stream-on ends after at
\* most 100 polls of VIDIOC_DQEVENT, whatever the kernel answers.
C9_EventWaitBounded == ep.event_polls <= EventWaitLimit

\* the running enqueue found every OUTPUT buffer queued and its drain
\* reclaimed none
AllQueuedAtStart == ep.full /\ ep.drained = 0

\* what C10 says of an enqueue whether or not the kernel takes the buffer:
\* at most 100 polls; a buffer the wait loop reclaims is the one used; with
\* no buffer reclaimed the enqueue fails, enqueues nothing and leaves every
\* queued flag as it was
C10_Common ==
    /\ ep.wait_polls <= WaitRetries
    /\ ep.reclaimed >= 0 => ep.buf_idx = ep.reclaimed
    /\ (pc = "ret" /\ ep.reclaimed < 0)
          => /\ ep.ret = -1
             /\ ~ep.enqueued
             /\ \A i \in OutputIdx : output_queued[i]

\* C10 (amended): when every OUTPUT buffer of a streaming session is queued
\* at the start of an enqueue, the enqueue polls at most 100 times; if the
\* kernel returns a completed buffer within those polls the enqueue goes on
\* with that buffer and succeeds exactly when the picture fits it and the
\* kernel accepts the VIDIOC_QBUF; with no buffer returned it fails without
\* enqueuing anything and without changing a queued flag.
C10_BackPressure ==
    AllQueuedAtStart =>
        /\ C10_Common
        /\ (pc = "ret" /\ ep.reclaimed >= 0)
              => /\ (ep.ret = 0) = ep.enqueued
                 /\ ep.enqueued => output_queued[ep.reclaimed]

\* C10 witness: the kernel returns a buffer on the 100th poll and the
\* enqueue succeeds with it
C10_Witness ==
    /\ AllQueuedAtStart
    /\ pc = "ret"
    /\ ep.wait_polls = WaitRetries
    /\ ep.reclaimed >= 0
    /\ ep.ret = 0
    /\ ep.enqueued

\* C10 as stated: the enqueue succeeds whenever the kernel returns a
\* completed buffer within the polls.
C10_SucceedsIfReclaimed ==
    AllQueuedAtStart =>
        /\ C10_Common
        /\ (pc = "ret" /\ ep.reclaimed >= 0) => ep.ret = 0


(* ----------------------- first-input handshake -------------------------- *)

\* no bitstream buffer has been accepted by the kernel yet
NothingEnqueuedYet == ~streaming_output /\ k_output = {}

\* the ioctls the handshake is made of
IsHandshakeCall(io) ==
    io.call \in {"STREAMON_OUTPUT", "DQEVENT", "G_FMT", "REQBUFS", "QBUF",
                 "STREAMON_CAPTURE"}

\* OUTPUT stream-on, event wait, CAPTURE format query, request of 16 CAPTURE
\* buffers, enqueue of every granted CAPTURE buffer, CAPTURE stream-on
HandshakeOrder ==
    << Ioctl("STREAMON_OUTPUT", 0), Ioctl("DQEVENT", 0), Ioctl("G_FMT", 0),
       Ioctl("REQBUFS", 16) >>
       \o [i \in 1 .. GrantedCapture |-> Ioctl("QBUF", i - 1)]
       \o << Ioctl("STREAMON_CAPTURE", 0) >>

IsPrefix(a, b) == Len(a) <= Len(b) /\ a = SubSeq(b, 1, Len(a))

\* C11: the CAPTURE queue has no buffers and does not stream until a
\* bitstream buffer has been enqueued with success; the ioctls that follow
\* the first successful enqueue come in the order OUTPUT stream-on, event
\* wait, CAPTURE format query, request of 16 CAPTURE buffers, enqueue of all
\* granted CAPTURE buffers, CAPTURE stream-on; streaming_capture is never
\* set while streaming_output is clear.
C11_HandshakeOrder ==
    /\ NothingEnqueuedYet =>
          num_capture_buffers = 0 /\ k_capture = {} /\ ~streaming_capture
    /\ streaming_capture => streaming_output
    /\ ep.kcalls # << >> => ep.enqueued
    /\ IsPrefix(SelectSeq(ep.kcalls, IsHandshakeCall), HandshakeOrder)
    /\ (streaming_capture /\ ep.kcalls # << >>)
          => SelectSeq(ep.kcalls, IsHandshakeCall) = HandshakeOrder

\* C11 witness: the call that made the first enqueue has gone through the
\* whole handshake, the format query having fallen back to VIDIOC_S_FMT
C11_Witness ==
    /\ pc = "dequeue"
    /\ streaming_output /\ streaming_capture
    /\ num_capture_buffers = GrantedCapture
    /\ Ioctl("S_FMT", 0) \in Chunks(ep.kcalls)
    /\ SelectSeq(ep.kcalls, IsHandshakeCall) = HandshakeOrder


(* ---------------------------- kernel failures --------------------------- *)

\* the session's flags say what the kernel does: a queue streams exactly if
\* its flag is set, the kernel holds exactly the buffers marked queued
KernelCoherent ==
    /\ streaming_output <=> "OUTPUT" \in k_streaming
    /\ streaming_capture <=> "CAPTURE" \in k_streaming
    /\ \A i \in OutputIdx : output_queued[i] <=> i \in k_output
    /\ \A b \in CaptureIdx : capture_queued[b] <=> b \in k_capture

\* the step is the one in which v4l2_queue_bitstream fails
EnqueueFailed == pc # "ret" /\ pc' = "ret" /\ ep'.ret = -1

\* the step is a v4l2_CreateContext that failed
CreateFailed == context = "none" /\ context' = "none" /\ vars' # vars

\* C15: a kernel failure during CreateContext or during EndPicture's enqueue
\* and first-input handshake makes the entry point return operation-failed,
\* and the session's flags stay coherent with the kernel: a streaming flag
\* is set only for a queue whose stream-on succeeded, a queued flag exactly
\* for the buffers the kernel accepted.
C15_FailureCoherent ==
    /\ []KernelCoherent
    /\ [][(EnqueueFailed \/ CreateFailed) => status' = "OPERATION_FAILED"]_vars

\* the CAPTURE stream-on failed after the kernel accepted CAPTURE buffers
C15_Witness ==
    /\ pc = "ret" /\ ep.ret = -1
    /\ ep.kcalls # << >>
    /\ ep.kcalls[Len(ep.kcalls)] = Ioctl("STREAMON_CAPTURE", 0)
    /\ streaming_output /\ ~streaming_capture
    /\ k_capture # {} /\ k_capture # CaptureIdx

(* ----------------------------- destruction ------------------------------ *)

\* C16: after DestroyContext both kernel streams are stopped and every
\* resource the session opened (the device, each OUTPUT mapping, each mapped
\* CAPTURE plane, each exported descriptor) is released.
C16_AllReleased ==
    context = "destroyed" => k_streaming = {} /\ session_opened(open_res) = {}

(* ------------------------------ reordering ------------------------------ *)

\* the values a parameter set gives the syntax element
ElemValues(hdr, name) == { hdr[i].v : i \in { j \in 1 .. Len(hdr) : hdr[j].f = name } }

\* an H.264 SPS tells the decoder that no picture is reordered: by
\* max_num_reorder_frames = 0 in the VUI, or by constraint_set3_flag = 1
\* (without either the decoder infers MaxDpbFrames, H.264 E.2.1)
h264_zero_reorder(sps) ==
    \/ ElemValues(sps, "max_num_reorder_frames") = {0}
    \/ ElemValues(sps, "constraint_set3_flag") = {1}

\* C20: for H.264 and HEVC and all picture parameters, the synthesised
\* parameter sets advertise zero picture reordering (HEVC:
\* vps_max_num_reorder_pics[0] = 0 and sps_max_num_reorder_pics[0] = 0).
C20_ZeroReorder ==
    /\ (codec = "HEVC" /\ hevc.hdr # NoPic) =>
          /\ ElemValues(hevc_generate_vps(hevc.hdr), "vps_max_num_reorder_pics") = {0}
          /\ ElemValues(hevc_generate_sps(hevc.hdr), "sps_max_num_reorder_pics") = {0}
    /\ (codec = "H264" /\ h264.hdr # NoPic) =>
          h264_zero_reorder(h264_generate_sps(h264.hdr))

(* -------------------------- deferred destruction ------------------------ *)

\* C19: DestroyBuffer on an image buffer whose in-use flag is set does not
\* free it, and the next UnmapBuffer of that buffer frees it: after
\* DestroyBuffer followed by UnmapBuffer the id refers to no live buffer.
C19_FreedAtUnmap ==
    [][\A i \in ImageIds :
         /\ (DestroyBuffer(i) /\ images[i].in_use) => images'[i] = images[i]
         /\ (i \in destroy_deferred /\ images[i].mapped /\ UnmapBuffer(i))
               => ~images'[i].alive]_vars

(* --------------------------- header cache key --------------------------- *)

\* C18: the HEVC header cache of a session depends on its own picture
\* parameters only: in every state, picture parameters whose (width,
\* height, bit depth) differ from those the cached VPS/SPS/PPS were generated
\* from make hevc_handle_picture_params regenerate the cache, whatever other
\* sessions of the process have received.
C18_CachePrivate ==
    \A pic \in PicParams :
        (codec = "HEVC" /\ pic.key # hevc.hdr.key) =>
            hevc_handle_picture_params(hevc, hevc_last, pic).hdr = pic

(* -------------------------------- progress ------------------------------ *)

\* surface s is the render target of a picture whose EndPicture returned
Submitted(s) == render_target = s /\ ~in_picture /\ pc = "idle" /\ surfaces[s].alive

C14_UnknownIdRejected ==
    [][/\ \A c \in UnknownCalls :
             UnknownCall(c) => status' = invalid_status(c.kind)
       /\ \A n \in 1 .. MaxSlices :
             RenderPictureUnknown(n) =>
                 status' = "INVALID_BUFFER" /\ last_slice_count' = last_slice_count]_vars

(* ------------------------------ lock order ------------------------------ *)

\* the mutexes thread t holds: -1 is the session's, s >= 0 is surface s's
Holds(t) == (IF context_mutex = t THEN {-1} ELSE {})
            \cup { s \in SurfaceIds : surface_mutex[s] = t }

\* the mutex or condition thread t is blocked on, if any
WaitsFor(t) ==
    IF t \in SyncThreads /\ thr[t].pc \in {"lock", "relock", "waiting"}
    THEN { thr[t].s }
    ELSE IF t \in SyncThreads /\ thr[t].pc = "want_ctx" THEN {-1}
    ELSE {}

\* thread t cannot take its next step
Blocked(t) ==
    \/ -1 \in WaitsFor(t) /\ context_mutex # NoThread
    \/ \E s \in SurfaceIds : s \in WaitsFor(t) /\ surface_mutex[s] # NoThread

\* C13: no thread blocks on a surface's mutex or condition variable while it
\* holds the session's mutex (nor on any lock while it holds another), so a
\* thread that is blocked always waits for a thread that is not: no
\* interleaving of BeginPicture, RenderPicture, EndPicture and SyncSurface
\* deadlocks.
C13_NoDeadlock ==
    \A t \in SyncThreads \cup {Decoder} :
        /\ (WaitsFor(t) \cap SurfaceIds # {}) => context_mutex # t
        /\ WaitsFor(t) # {} => Holds(t) = {}
        /\ Blocked(t) =>
              \E u \in (SyncThreads \cup {Decoder}) \ {t} :
                  Holds(u) \cap WaitsFor(t) # {} /\ ~Blocked(u)

\* one thread holds the surface's mutex, another is blocked on it, and the
\* third is inside EndPicture with the session's mutex
C13_Witness ==
    /\ context_mutex = Decoder /\ pc = "dequeue"
    /\ \E t, u \in SyncThreads :
          /\ t # u
          /\ surface_mutex[0] = t /\ thr[t].pc = "test"
          /\ thr[u].pc = "relock" /\ thr[u].s = 0 /\ Blocked(u)

(* --------------------------- the session mutex -------------------------- *)

\* the state of the session the mutex protects: descriptors and their queued
\* flags, cached plane mappings, exported descriptors, streaming flags,
\* assembly buffer, header caches
SessionState == << output_queued, capture_queued, num_capture_buffers,
                   plane_mapped, capture_fd, streaming_output,
                   streaming_capture, bitstream, h264, hevc >>

\* the step is one of the thread that holds the mutex: the thread inside
\* EndPicture, or a thread inside SyncSurface
HolderSteps ==
    \/ context_mutex = Decoder /\ (pc' # pc \/ ep' # ep)
    \/ context_mutex \in SyncThreads /\ thr'[context_mutex] # thr[context_mutex]

\* C12: every operation that modifies the session's state does so while it
\* holds the session's mutex: while one thread holds the mutex, no step of
\* another thread changes the session's state.
C12_MutexGuardsState ==
    [][(context_mutex # NoThread /\ ~HolderSteps) => UNCHANGED SessionState]_vars

(* ------------------------ slice data and EndPicture --------------------- *)

\* the session is between BeginPicture and EndPicture and no call is running:
\* the states in which the consumer calls EndPicture
AtEndPicture == in_picture /\ pc = "idle"

\* C21: at every EndPicture the assembly buffer is non-empty exactly when at
\* least one slice-data buffer was rendered since the enclosing BeginPicture,
\* whatever the order of the slice-parameter and slice-data buffers and
\* whatever the NAL types of the slices.
C21_NonEmptyIffSliceData ==
    AtEndPicture => (bitstream # << >> <=> slice_data_seen > 0)

(* --------------------------- config creation ---------------------------- *)

\* the variables of the session but the status of the last call
decode_vars == << codec, streaming_output, streaming_capture, output_queued,
                  num_capture_buffers, capture_queued, k_output, k_capture,
                  render_target, bitstream, last_slice_count, h264, hevc,
                  hevc_last, surfaces, images, pc, ep, sync, in_picture,
                  slice_data_seen, hdr_in_kernel, begin_released,
                  slices_delivered, ext_vars >>

\* v4l2_CreateConfig; mem: calloc succeeds
CreateConfig(profile, entrypoint, mem) ==
    LET st == create_config_status(configs, profile, entrypoint, mem)
        id == allocate_config_id(configs)
    IN  /\ status' = st
        /\ configs' = IF st = "SUCCESS"
                      THEN [configs EXCEPT ![CONFIG_INDEX(id)] =
                              [profile |-> profile, entrypoint |-> entrypoint,
                               codec |-> codec_for_profile(profile).name]]
                      ELSE configs
        /\ UNCHANGED << decode_vars, supported_profiles, gen_vars, descriptor, aux_vars >>

\* v4l2_DestroyConfig
DestroyConfig(id) ==
    /\ IF CONFIG_INDEX(id) \in ConfigIdx /\ configs[CONFIG_INDEX(id)] # NoConfig
       THEN /\ configs' = [configs EXCEPT ![CONFIG_INDEX(id)] = NoConfig]
            /\ status' = "SUCCESS"
       ELSE /\ status' = "INVALID_CONFIG"
            /\ UNCHANGED configs
    /\ UNCHANGED << decode_vars, supported_profiles, gen_vars, descriptor, aux_vars >>

\* the devices: one that enumerates no format, one with the formats of the
\* registered codecs, one with AV1 alone and one with every format
DeviceFormats ==
    { {}, {"H264", "HEVC", "VP8", "VP9"}, {"AV1"},
      { PixFmts[i] : i \in 1 .. Len(PixFmts) } }

\* The driver after __vaDriverInit on one of the devices: no config, no
\* context.
InitConfig ==
    /\ InitSession({"VP9"}, "none", {})
    /\ InitIdle
    /\ configs = [i \in ConfigIdx |-> NoConfig]
    /\ \E have \in DeviceFormats :
          supported_profiles = v4l2_probe_capabilities(EnumFmt(have))

NextConfig ==
    \/ \E profile \in Profiles, entrypoint \in Entrypoints, mem \in BOOLEAN :
          CreateConfig(profile, entrypoint, mem)
    \/ \E id \in 0 .. MaxConfigs + 1 : DestroyConfig(id)

SpecConfig == InitConfig /\ [][NextConfig]_vars

\* the profile is one no registered codec handles
Unhandled(profile) == codec_for_profile(profile) = NoCodec

Advertised == { supported_profiles[i] : i \in 1 .. Len(supported_profiles) }

\* C23: every profile the driver advertises through QueryConfigProfiles, the
\* AV1 profile included, is accepted by CreateConfig with the VLD entrypoint
\* (a config slot being free and memory available).
C23_AdvertisedAccepted ==
    [][\A profile \in Advertised :
         (allocate_config_id(configs) # InvalidConfigId
            /\ CreateConfig(profile, "VLD", TRUE)) => status' = "SUCCESS"]_vars

(* ------------------- a dequeue and the waiting threads ------------------ *)

\* One thread decodes pictures of one slice into one surface on a quick
\* kernel while another calls SyncSurface on that surface, lock by lock.
NextWake ==
    \/ ~surfaces[0].alive /\ CreateSurfaces
    \/ BeginPicture(0)
    \/ RenderSliceParams(1)
    \/ \E data \in [1 .. 1 -> SliceBytes(codec)] : RenderSliceData(data)
    \/ EndPictureCalls(TRUE, TRUE)
    \/ SyncCall(1, 0)
    \/ SyncSteps(1)

SpecWake == Init /\ [][NextWake]_vars

\* in this step v4l2_dequeue_frame takes buffer b from the kernel for
\* surface s: in EndPicture for the render target, or in SyncSurface
Dequeues(s, b) ==
    /\ b \in k_capture
    /\ b \notin k_capture'
    /\ \/ pc = "dequeue" /\ pc' = "ret" /\ render_target = s
       \/ \E t \in SyncThreads :
             thr[t].pc = "in_ctx" /\ thr'[t].pc = "relock" /\ thr[t].s = s

\* thread t waits in pthread_cond_timedwait on the condition of surface s
WaitsOnCond(t, s) == thr[t].pc = "waiting" /\ thr[t].s = s

\* C24: a successful dequeue for a surface sets the surface's capture index
\* to the dequeued buffer, marks it decoded, clears the queued flag of the
\* buffer's descriptor and signals the surface's condition, so that a thread
\* waiting on it in SyncSurface is woken; a failed dequeue changes none of
\* these.
C24_DequeueSignals ==
    [][/\ \A s \in SurfaceIds, b \in CaptureIdx :
            Dequeues(s, b) =>
               /\ surfaces'[s].capture_idx = b
               /\ surfaces'[s].decoded
               /\ ~capture_queued'[b]
               /\ \A t \in SyncThreads :
                     WaitsOnCond(t, s) => ~WaitsOnCond(t, s)'
       /\ (pc = "dequeue" /\ pc' = "ret" /\ k_capture' = k_capture)
             => UNCHANGED << surfaces, capture_queued >>]_vars

\* the parts of C24 other than the signal: surface, descriptor, failure
C24_DequeueRecords ==
    [][/\ \A s \in SurfaceIds, b \in CaptureIdx :
            Dequeues(s, b) =>
               /\ surfaces'[s].capture_idx = b
               /\ surfaces'[s].decoded
               /\ ~capture_queued'[b]
       /\ (pc = "dequeue" /\ pc' = "ret" /\ k_capture' = k_capture)
             => UNCHANGED << surfaces, capture_queued >>]_vars

(* ------------------------- Exp-Golomb and finish ------------------------ *)

\* the writes a generator makes through one writer
MaxBwOps == 2

\* the values written with bw_put_ue: small ones, the ends of code lengths,
\* the largest 2^31 - 2
UeValues == { 0, 1, 2, 3, 4, 5, 6, 7, 8, 14, 15, 16, 254, 255, 256, 65534,
              65535, 65536, 1073741822, 1073741823, 1073741824, 2147483645,
              2147483646 }

\* the fixed-length writes (value, bits): flags, a 3-bit field, the NAL
\* header byte of an SPS
FixedWrites == { << 0, 1 >>, << 1, 1 >>, << 5, 3 >>, << 103, 8 >> }

\* a call of bw_put_bits by a generator
PutBits(val, bits) ==
    /\ bw_ret = -1
    /\ Len(bw_ops) < MaxBwOps
    /\ bw' = bw_put_bits(bw, val, bits)
    /\ bw_ops' = Append(bw_ops, [op |-> "bits", v |-> val, n |-> bits])
    /\ UNCHANGED << decode_vars, status, configs, supported_profiles, bw_ret,
                    h264_pic, hevc_pic, gen_vps, gen_sps, descriptor, aux_vars >>

\* a call of bw_put_ue by a generator
PutUe(v) ==
    /\ bw_ret = -1
    /\ Len(bw_ops) < MaxBwOps
    /\ bw' = bw_put_ue(bw, v)
    /\ bw_ops' = Append(bw_ops, [op |-> "ue", v |-> v, n |-> 0])
    /\ UNCHANGED << decode_vars, status, configs, supported_profiles, bw_ret,
                    h264_pic, hevc_pic, gen_vps, gen_sps, descriptor, aux_vars >>

\* return bw_finish(&bw)
Finish ==
    /\ bw_ret = -1
    /\ bw' = bw_finish(bw)
    /\ bw_ret' = bw_finish(bw).size
    /\ UNCHANGED << decode_vars, status, configs, supported_profiles, bw_ops,
                    h264_pic, hevc_pic, gen_vps, gen_sps, descriptor, aux_vars >>

\* A header generator of an H.264 or HEVC session writing through its
\* BitWriter: up to MaxBwOps writes, then bw_finish.
NextBits ==
    \/ \E f \in FixedWrites : PutBits(f[1], f[2])
    \/ \E v \in UeValues : PutUe(v)
    \/ Finish

SpecBits == InitWith({"H264", "HEVC"}) /\ [][NextBits]_vars

\* the bits of a byte, most significant first
ByteBits(b) == [i \in 1 .. 8 |-> (b \div 2 ^ (8 - i)) % 2]

\* the bits of the bytes of a buffer
DataBits(d) ==
    [i \in 1 .. 8 * Len(d) |-> ByteBits(d[((i - 1) \div 8) + 1])[((i - 1) % 8) + 1]]

\* the bits a writer that is not finished holds: its bytes, then the bit_pos
\* bits of current_byte
WrittenBits(w) == DataBits(w.data) \o HeldBits(w)

\* the bits the step appended to the writer
Appended == SubSeq(WrittenBits(bw'), Len(WrittenBits(bw)) + 1, Len(WrittenBits(bw')))

\* the number of leading zero bits of a bit string (-1: it holds no 1)
LeadingZeros(b) ==
    IF \A i \in 1 .. Len(b) : b[i] = 0 THEN -1
    ELSE (CHOOSE i \in 1 .. Len(b) : b[i] = 1 /\ \A j \in 1 .. i - 1 : b[j] = 0) - 1

\* the ue(v) parsing process of the codec standards: leadingZeroBits zeros,
\* a one, leadingZeroBits bits; codeNum = 2^leadingZeroBits - 1 + those bits
\* (-1: the bit string is not one code word)
ue_decode(b) ==
    LET lz == LeadingZeros(b)
    IN  IF lz < 0 \/ Len(b) # 2 * lz + 1 THEN -1
        ELSE 2 ^ lz - 1 + BitsValue(SubSeq(b, lz + 2, 2 * lz + 1))

Zeros(n) == [i \in 1 .. n |-> 0]

\* C26: in every state of a writer, bw_finish appends a 1 bit and then zero
\* bits up to the next byte boundary and returns the resulting length; on a
\* freshly initialised writer it yields the single byte 0x80.
C26_FinishAppendsStopBit ==
    [][Finish =>
         /\ DataBits(bw'.data) = WrittenBits(bw) \o << 1 >> \o Zeros(7 - bw.bit_pos)
         /\ bw_ret' = Len(bw'.data)
         /\ bw = bw_init(BwCapacity) => bw'.data = << 128 >>]_vars

(* --------------------------- H.264 SPS cropping ------------------------- *)

\* h264_detect_profile
h264_detect_profile(pic) ==
    IF pic.bit_depth_luma_minus8 > 0 \/ pic.bit_depth_chroma_minus8 > 0
    THEN IF pic.chroma_format_idc = 3 THEN 244
         ELSE IF pic.chroma_format_idc = 2 THEN 122
         ELSE 110
    ELSE IF pic.transform_8x8_mode_flag # 0 THEN 100
    ELSE IF pic.entropy_coding_mode_flag # 0 THEN 77
    ELSE 66

\* h264_calc_level
h264_calc_level(pic) ==
    LET total_mbs == (pic.picture_width_in_mbs_minus1 + 1)
                     * (pic.picture_height_in_mbs_minus1 + 1)
        max_dpb_mbs == total_mbs * (pic.num_ref_frames + 1)
    IN  IF max_dpb_mbs <= 396 THEN 10
        ELSE IF max_dpb_mbs <= 900 THEN 11
        ELSE IF max_dpb_mbs <= 2376 THEN 12
        ELSE IF max_dpb_mbs <= 4752 THEN 20
        ELSE IF max_dpb_mbs <= 8100 THEN 21
        ELSE IF max_dpb_mbs <= 18000 THEN 22
        ELSE IF max_dpb_mbs <= 20480 THEN 30
        ELSE IF max_dpb_mbs <= 36864 THEN 31
        ELSE IF max_dpb_mbs <= 32768 THEN 32
        ELSE IF max_dpb_mbs <= 110400 THEN 40
        ELSE IF max_dpb_mbs <= 184320 THEN 41
        ELSE IF max_dpb_mbs <= 184320 THEN 42
        ELSE IF max_dpb_mbs <= 696320 THEN 50
        ELSE IF max_dpb_mbs <= 696320 THEN 51
        ELSE 52

\* bool need_crop of h264_generate_sps: "Common resolutions that need
\* cropping"
h264_need_crop(pic) ==
    LET width_pixels == (pic.picture_width_in_mbs_minus1 + 1) * 16
        height_pixels == (pic.picture_height_in_mbs_minus1 + 1) * 16
    IN  \/ width_pixels = 1920 /\ height_pixels = 1088
        \/ width_pixels = 1280 /\ height_pixels = 736
        \/ width_pixels = 640 /\ height_pixels = 368

\* "Frame cropping" of h264_generate_sps: crop_right = 0, crop_bottom = 4
h264_crop_elems(pic) ==
    IF h264_need_crop(pic)
    THEN << Elem("frame_cropping_flag", 1),
            Elem("frame_crop_left_offset", 0),
            Elem("frame_crop_right_offset", 0),
            Elem("frame_crop_top_offset", 0),
            Elem("frame_crop_bottom_offset", 4) >>
    ELSE << Elem("frame_cropping_flag", 0) >>

\* h264_generate_sps: of the syntax elements it writes, in order, those that
\* give the decoder the profile, the level, the chroma format, the bit
\* depths and the frame size
h264_generate_sps_frame(pic) ==
    << Elem("profile_idc", h264_detect_profile(pic)),
       Elem("level_idc", h264_calc_level(pic)) >>
    \o (IF h264_detect_profile(pic) >= 100
        THEN << Elem("chroma_format_idc", pic.chroma_format_idc) >>
             \o (IF pic.chroma_format_idc = 3
                 THEN << Elem("separate_colour_plane_flag", 0) >> ELSE << >>)
             \o << Elem("bit_depth_luma_minus8", pic.bit_depth_luma_minus8),
                   Elem("bit_depth_chroma_minus8", pic.bit_depth_chroma_minus8) >>
        ELSE << >>)
    \o << Elem("max_num_ref_frames", pic.num_ref_frames),
          Elem("pic_width_in_mbs_minus1", pic.picture_width_in_mbs_minus1),
          Elem("pic_height_in_map_units_minus1", pic.picture_height_in_mbs_minus1),
          Elem("frame_mbs_only_flag", pic.frame_mbs_only_flag) >>
    \o h264_crop_elems(pic)

\* the picture parameters of H.264 streams: frames of 1920x1088, 1280x736 and
\* 640x368 luma samples, every chroma format and bit depth, 1, 4 or 16 reference
\* frames, frame and field coding, every profile
H264Pics ==
    [picture_width_in_mbs_minus1 : {119}, picture_height_in_mbs_minus1 : {67},
     bit_depth_luma_minus8 : {0, 2}, bit_depth_chroma_minus8 : {0, 2},
     num_ref_frames : {1, 4, 16}, chroma_format_idc : 0 .. 3,
     frame_mbs_only_flag : {0, 1}, transform_8x8_mode_flag : {0, 1},
     entropy_coding_mode_flag : {0, 1}]
    \cup
    [picture_width_in_mbs_minus1 : {79}, picture_height_in_mbs_minus1 : {45},
     bit_depth_luma_minus8 : {0}, bit_depth_chroma_minus8 : {0},
     num_ref_frames : {1, 4}, chroma_format_idc : {1},
     frame_mbs_only_flag : {1}, transform_8x8_mode_flag : {0, 1},
     entropy_coding_mode_flag : {1}]
    \cup
    [picture_width_in_mbs_minus1 : {39}, picture_height_in_mbs_minus1 : {22},
     bit_depth_luma_minus8 : {0}, bit_depth_chroma_minus8 : {0},
     num_ref_frames : {1, 4}, chroma_format_idc : {1},
     frame_mbs_only_flag : {1}, transform_8x8_mode_flag : {0, 1},
     entropy_coding_mode_flag : {1}]

\* h264_handle_picture_params: last_sps_size = h264_generate_sps(pic, ...)
GenerateH264Sps ==
    /\ codec = "H264"
    /\ gen_sps = << >>
    /\ gen_sps' = h264_generate_sps_frame(h264_pic)
    /\ UNCHANGED << decode_vars, status, configs, supported_profiles, bw,
                    bw_ret, bw_ops, h264_pic, hevc_pic, gen_vps, descriptor,
                    aux_vars >>

\* An H.264 session that receives one picture-parameter buffer.
InitH264Sps ==
    /\ InitSession({"H264"}, "alive", created_res)
    /\ InitDriver(codec)
    /\ \E h \in H264Pics : InitPics(h, NoHevcPic)

SpecH264Sps == InitH264Sps /\ [][GenerateH264Sps]_vars

\* the value a parameter set gives the syntax element, or the value the
\* standard has the decoder infer when the element is absent
ElemOr(hdr, name, inferred) ==
    IF ElemValues(hdr, name) = {} THEN inferred
    ELSE CHOOSE v \in ElemValues(hdr, name) : TRUE

\* the height of the cropped frame a decoder derives from an H.264 SPS
\* (H.264 7.4.2.1.1: FrameHeightInMbs, ChromaArrayType, SubHeightC,
\* CropUnitY; chroma_format_idc is inferred to be 1 when absent)
h264_display_height(hdr) ==
    LET idc == ElemOr(hdr, "chroma_format_idc", 1)
        ChromaArrayType ==
            IF ElemOr(hdr, "separate_colour_plane_flag", 0) = 1 THEN 0 ELSE idc
        SubHeightC == IF idc = 1 THEN 2 ELSE 1
        fields == 2 - ElemOr(hdr, "frame_mbs_only_flag", 1)
        CropUnitY == IF ChromaArrayType = 0 THEN fields ELSE SubHeightC * fields
        FrameHeightInMbs ==
            fields * (ElemOr(hdr, "pic_height_in_map_units_minus1", 0) + 1)
    IN  16 * FrameHeightInMbs
        - CropUnitY * (ElemOr(hdr, "frame_crop_top_offset", 0)
                       + ElemOr(hdr, "frame_crop_bottom_offset", 0))

\* the picture parameters lie in the test matrix: 8 or 10 bits, chroma
\* format 1 or 3, 1, 4 or 16 reference frames
H264InMatrix ==
    /\ h264_pic.bit_depth_luma_minus8 = h264_pic.bit_depth_chroma_minus8
    /\ h264_pic.chroma_format_idc \in {1, 3}
    /\ h264_pic.num_ref_frames \in {1, 4, 16}

\* C27: for H.264 picture parameters of 120 x 68 macroblocks (1920 x 1088),
\* the display height a decoder derives from the synthesised SPS (coded
\* height minus frame_crop_bottom_offset times the crop unit of the signalled
\* chroma format and frame_mbs_only_flag) is 1080, for every bit depth,
\* chroma format and reference-frame count of the test matrix.
C27_DisplayHeight1080 ==
    (gen_sps # << >> /\ h264_pic.picture_width_in_mbs_minus1 = 119
                     /\ h264_pic.picture_height_in_mbs_minus1 = 67
                     /\ h264_pic.frame_mbs_only_flag = 1
                     /\ H264InMatrix)
        => h264_display_height(gen_sps) = 1080

\* the part of C27 that holds: 4:2:0 frame-coded streams
C27_DisplayHeight420 ==
    (gen_sps # << >> /\ h264_pic.picture_width_in_mbs_minus1 = 119
                     /\ h264_pic.picture_height_in_mbs_minus1 = 67
                     /\ h264_pic.chroma_format_idc = 1
                     /\ h264_pic.frame_mbs_only_flag = 1)
        => h264_display_height(gen_sps) = 1080

(* ------------------- HEVC profile, tier, level and window --------------- *)

\* a * b fits an int (a, b in 0 .. 65535)
mul_fits(a, b) == a = 0 \/ b <= 2147483647 \div a

\* the low 32 bits of a * b, read as an int (a, b in 0 .. 65535)
mul_wrap(a, b) ==
    LET ah == a \div 256
        al == a % 256
        bh == b \div 256
        bl == b % 256
        mid == ah * bl + al * bh
        low == (mid % 256) * 256 + al * bl
        lo16 == low % 65536
        hi16 == (ah * bh + mid \div 256 + low \div 65536) % 65536
    IN  IF hi16 >= 32768 THEN (hi16 - 65536) * 65536 + lo16
        ELSE hi16 * 65536 + lo16

\* int pixels = width * height: the product where it fits; where it does
\* not, the multiplication overflows an int and the build either wraps or
\* compares the product as a value above every threshold
int_mul(a, b) ==
    IF mul_fits(a, b) THEN {a * b} ELSE {mul_wrap(a, b), 2147483647}

\* hevc_calc_level, given the outcome pixels of width * height
hevc_calc_level(pixels) ==
    IF pixels <= 36864 THEN 30
    ELSE IF pixels <= 122880 THEN 60
    ELSE IF pixels <= 245760 THEN 63
    ELSE IF pixels <= 552960 THEN 90
    ELSE IF pixels <= 983040 THEN 93
    ELSE IF pixels <= 2228224 THEN 120
    ELSE IF pixels <= 2228224 THEN 123
    ELSE IF pixels <= 8912896 THEN 150
    ELSE IF pixels <= 8912896 THEN 153
    ELSE IF pixels <= 8912896 THEN 156
    ELSE IF pixels <= 35651584 THEN 180
    ELSE IF pixels <= 35651584 THEN 183
    ELSE 186

\* hevc_calc_tier, given the outcome pixels of width * height
hevc_calc_tier(level_idc, pixels) ==
    IF level_idc >= 150 /\ pixels >= 8294400 THEN 1 ELSE 0

\* the profile_tier_level elements hevc_generate_vps and hevc_generate_sps
\* write: general_tier_flag in 1 bit, general_profile_idc in 5 bits,
\* general_level_idc in 8 bits
hevc_ptl_elems(pic, level_pixels, tier_pixels) ==
    LET level_idc == hevc_calc_level(level_pixels)
        tier == hevc_calc_tier(level_idc, tier_pixels)
    IN  << Elem("general_tier_flag", tier % 2),
           Elem("general_profile_idc",
                (IF pic.bit_depth_luma_minus8 > 0 THEN 2 ELSE 1) % 32),
           Elem("general_level_idc", level_idc % 256) >>

\* hevc_generate_vps: profile, tier and level
hevc_generate_vps_ptl(pic, level_pixels, tier_pixels) ==
    hevc_ptl_elems(pic, level_pixels, tier_pixels)

\* "conformance_window_flag - check if cropping needed" of hevc_generate_sps
hevc_conf_win_elems(pic) ==
    LET ctb_size == 2 ^ (pic.log2_min_luma_coding_block_size_minus3 + 3
                         + pic.log2_diff_max_min_luma_coding_block_size)
        aligned_width ==
            ((pic.pic_width_in_luma_samples + ctb_size - 1) \div ctb_size) * ctb_size
        aligned_height ==
            ((pic.pic_height_in_luma_samples + ctb_size - 1) \div ctb_size) * ctb_size
        need_crop == \/ aligned_width # pic.pic_width_in_luma_samples
                     \/ aligned_height # pic.pic_height_in_luma_samples
        sub_width_c == IF pic.chroma_format_idc \in {1, 2} THEN 2 ELSE 1
        sub_height_c == IF pic.chroma_format_idc = 1 THEN 2 ELSE 1
    IN  IF need_crop
        THEN << Elem("conformance_window_flag", 1),
                Elem("conf_win_left_offset", 0),
                Elem("conf_win_right_offset",
                     (aligned_width - pic.pic_width_in_luma_samples) \div sub_width_c),
                Elem("conf_win_top_offset", 0),
                Elem("conf_win_bottom_offset",
                     (aligned_height - pic.pic_height_in_luma_samples) \div sub_height_c) >>
        ELSE << Elem("conformance_window_flag", 0) >>

\* hevc_generate_sps: profile, tier and level, chroma format, picture size,
\* conformance window and luma bit depth, in the order they are written
hevc_generate_sps_frame(pic, level_pixels, tier_pixels) ==
    hevc_ptl_elems(pic, level_pixels, tier_pixels)
    \o << Elem("chroma_format_idc", pic.chroma_format_idc) >>
    \o (IF pic.chroma_format_idc = 3
        THEN << Elem("separate_colour_plane_flag", pic.separate_colour_plane_flag % 2) >>
        ELSE << >>)
    \o << Elem("pic_width_in_luma_samples", pic.pic_width_in_luma_samples),
          Elem("pic_height_in_luma_samples", pic.pic_height_in_luma_samples) >>
    \o hevc_conf_win_elems(pic)
    \o << Elem("bit_depth_luma_minus8", pic.bit_depth_luma_minus8) >>

\* the picture sizes of the round-trip matrix
MatrixWidths == {176, 640, 1280, 1920, 3840}
MatrixHeights == {144, 480, 720, 1088, 2160}

\* further sizes: 1080p, the largest pictures of levels 5 and 6, a picture
\* above level 6.2, and the smallest and largest squares whose sample count
\* exceeds an int
OtherSizes ==
    {<< 1920, 1080 >>, << 4096, 2176 >>, << 8192, 4352 >>, << 8192, 8192 >>,
     << 46341, 46341 >>, << 65535, 65535 >>}

\* the picture parameters of HEVC streams: the sizes above, 8 and 10 bits,
\* 4:2:0 and 4:4:4 (with and without separate colour planes), coding tree
\* blocks of 16, 32 and 64 samples
HevcPics ==
    {[pic_width_in_luma_samples |-> sz[1], pic_height_in_luma_samples |-> sz[2],
      bit_depth_luma_minus8 |-> bd, chroma_format_idc |-> cf[1],
      separate_colour_plane_flag |-> cf[2],
      log2_min_luma_coding_block_size_minus3 |-> cb[1],
      log2_diff_max_min_luma_coding_block_size |-> cb[2]] :
        sz \in (MatrixWidths \X MatrixHeights) \cup OtherSizes,
        bd \in {0, 2},
        cf \in {<< 1, 0 >>, << 3, 0 >>, << 3, 1 >>},
        cb \in {<< 0, 1 >>, << 0, 2 >>, << 1, 1 >>, << 0, 3 >>}}

\* hevc_handle_picture_params with params_changed: hevc_generate_vps, then
\* hevc_generate_sps; each of them computes width * height once for the
\* level and once for the tier
GenerateHevcParams ==
    /\ codec = "HEVC"
    /\ gen_vps = << >>
    /\ \E vl, vt, sl, st \in int_mul(hevc_pic.pic_width_in_luma_samples,
                                     hevc_pic.pic_height_in_luma_samples) :
          /\ gen_vps' = hevc_generate_vps_ptl(hevc_pic, vl, vt)
          /\ gen_sps' = hevc_generate_sps_frame(hevc_pic, sl, st)
    /\ UNCHANGED << decode_vars, status, configs, supported_profiles, bw,
                    bw_ret, bw_ops, h264_pic, hevc_pic, descriptor, aux_vars >>

\* An HEVC session that receives its first picture-parameter buffer.
InitHevcSps ==
    /\ InitSession({"HEVC"}, "alive", created_res)
    /\ InitDriver(codec)
    /\ \E v \in HevcPics : InitPics(NoH264Pic, v)

SpecHevcSps == InitHevcSps /\ [][GenerateHevcParams]_vars

\* the display size a decoder derives from an HEVC SPS (H.265 7.4.3.2.1
\* and table 6-1: the window offsets are in units of SubWidthC and
\* SubHeightC)
hevc_display_size(hdr) ==
    LET idc == ElemOr(hdr, "chroma_format_idc", 1)
        planes == ElemOr(hdr, "separate_colour_plane_flag", 0)
        SubWidthC == IF planes = 0 /\ idc \in {1, 2} THEN 2 ELSE 1
        SubHeightC == IF planes = 0 /\ idc = 1 THEN 2 ELSE 1
    IN  << ElemOr(hdr, "pic_width_in_luma_samples", 0)
           - SubWidthC * (ElemOr(hdr, "conf_win_left_offset", 0)
                          + ElemOr(hdr, "conf_win_right_offset", 0)),
           ElemOr(hdr, "pic_height_in_luma_samples", 0)
           - SubHeightC * (ElemOr(hdr, "conf_win_top_offset", 0)
                           + ElemOr(hdr, "conf_win_bottom_offset", 0)) >>

\* the picture parameters lie in the round-trip matrix
HevcInMatrix ==
    /\ hevc_pic.pic_width_in_luma_samples \in MatrixWidths
    /\ hevc_pic.pic_height_in_luma_samples \in MatrixHeights
    /\ hevc_pic.chroma_format_idc \in {1, 3}

\* C28: for every HEVC picture-parameter buffer of the test matrix and every
\* coding-block size, the display width and height a decoder derives from
\* the synthesised SPS (picture size minus the conformance-window offsets
\* times the chroma sub-sampling factors) are the width and height that
\* drove synthesis.
C28_DisplaySizeIsInput ==
    (gen_sps # << >> /\ codec = "HEVC" /\ HevcInMatrix)
        => hevc_display_size(gen_sps) = << hevc_pic.pic_width_in_luma_samples,
                                           hevc_pic.pic_height_in_luma_samples >>

\* the part of C28 that holds: sizes that are multiples of the coding tree
\* block
C28_DisplaySizeAligned ==
    LET ctb == 2 ^ (hevc_pic.log2_min_luma_coding_block_size_minus3 + 3
                    + hevc_pic.log2_diff_max_min_luma_coding_block_size)
    IN  (gen_sps # << >> /\ codec = "HEVC"
            /\ hevc_pic.pic_width_in_luma_samples % ctb = 0
            /\ hevc_pic.pic_height_in_luma_samples % ctb = 0)
        => hevc_display_size(gen_sps) = << hevc_pic.pic_width_in_luma_samples,
                                           hevc_pic.pic_height_in_luma_samples >>

\* width * height <= bound, without forming the product
SamplesAtMost(pic, bound) ==
    mul_fits(pic.pic_width_in_luma_samples, pic.pic_height_in_luma_samples)
    /\ pic.pic_width_in_luma_samples * pic.pic_height_in_luma_samples <= bound

\* the rows of the level table: luma-sample threshold and level_idc; the
\* last row has no threshold
LevelRows ==
    << << 36864, 30 >>, << 122880, 60 >>, << 245760, 63 >>, << 552960, 90 >>,
       << 983040, 93 >>, << 2228224, 120 >>, << 2228224, 123 >>,
       << 8912896, 150 >>, << 8912896, 153 >>, << 8912896, 156 >>,
       << 35651584, 180 >>, << 35651584, 183 >> >>

\* the level of the first row whose threshold is not below width * height
FirstLevelRow(pic) ==
    IF \E i \in 1 .. Len(LevelRows) : SamplesAtMost(pic, LevelRows[i][1])
    THEN LevelRows[CHOOSE i \in 1 .. Len(LevelRows) :
                       /\ SamplesAtMost(pic, LevelRows[i][1])
                       /\ \A j \in 1 .. i - 1 : ~SamplesAtMost(pic, LevelRows[j][1])][2]
    ELSE 186

\* the profile, tier and level the statement gives the picture parameters
ExpectedPtl(pic) ==
    [profile |-> IF pic.bit_depth_luma_minus8 > 0 THEN 2 ELSE 1,
     level |-> FirstLevelRow(pic),
     tier |-> IF FirstLevelRow(pic) >= 150 /\ ~SamplesAtMost(pic, 8294399)
              THEN 1 ELSE 0]

\* the profile, tier and level a parameter set carries
PtlOf(hdr) ==
    [profile |-> ElemOr(hdr, "general_profile_idc", -1),
     level |-> ElemOr(hdr, "general_level_idc", -1),
     tier |-> ElemOr(hdr, "general_tier_flag", -1)]

\* C29: for all HEVC picture parameters, the synthesised VPS and SPS carry
\* general_profile_idc 2 if the bit depth exceeds 8 and 1 otherwise,
\* general_level_idc of the first level-table row whose luma-sample
\* threshold is not below width x height, and general_tier_flag 1 exactly
\* when level_idc >= 150 and width x height >= 8294400; 3840 x 2160 at 10
\* bits gives profile_idc 2, tier 1 and level_idc 150.
C29_ProfileTierLevel ==
    (gen_vps # << >> /\ codec = "HEVC")
        => /\ PtlOf(gen_vps) = ExpectedPtl(hevc_pic)
           /\ PtlOf(gen_sps) = ExpectedPtl(hevc_pic)
           /\ (/\ hevc_pic.pic_width_in_luma_samples = 3840
               /\ hevc_pic.pic_height_in_luma_samples = 2160
               /\ hevc_pic.bit_depth_luma_minus8 = 2)
                  => PtlOf(gen_vps) = [profile |-> 2, level |-> 150, tier |-> 1]

\* the part of C29 that holds: pictures whose sample count fits an int
C29_ProfileTierLevelInRange ==
    (gen_vps # << >> /\ codec = "HEVC"
        /\ mul_fits(hevc_pic.pic_width_in_luma_samples,
                    hevc_pic.pic_height_in_luma_samples))
        => /\ PtlOf(gen_vps) = ExpectedPtl(hevc_pic)
           /\ PtlOf(gen_sps) = ExpectedPtl(hevc_pic)
           /\ (/\ hevc_pic.pic_width_in_luma_samples = 3840
               /\ hevc_pic.pic_height_in_luma_samples = 2160
               /\ hevc_pic.bit_depth_luma_minus8 = 2)
                  => PtlOf(gen_vps) = [profile |-> 2, level |-> 150, tier |-> 1]

(* --------------------------- exported descriptor ------------------------ *)

\* the memory types ExportSurfaceHandle accepts
AcceptedMemTypes == {"DRM_PRIME", "DRM_PRIME_2"}

\* the NV12 layout of a surface of SurfaceWidth x SurfaceHeight: one memory
\* object of size W*H*3/2 with the linear modifier, layer 0 one channel at
\* offset 0 with pitch W, layer 1 two channels at offset W*H with pitch W
Nv12Layout(d) ==
    /\ d.num_objects = 1
    /\ d.size = (SurfaceWidth * SurfaceHeight * 3) \div 2
    /\ d.modifier = "LINEAR"
    /\ d.num_layers = 2
    /\ Len(d.layers) = 2
    /\ d.layers[1].drm_format = "R8"
    /\ d.layers[1].offset = 0
    /\ d.layers[1].pitch = SurfaceWidth
    /\ d.layers[2].drm_format = "RG88"
    /\ d.layers[2].offset = SurfaceWidth * SurfaceHeight
    /\ d.layers[2].pitch = SurfaceWidth

\* the step is a successful ExportSurfaceHandle of surface s with type mem
ExportSucceeds(s, mem) ==
    /\ status' = "SUCCESS"
    /\ open_res' # open_res
    /\ ExportSurfaceHandle(s, mem)

\* C30: a successful ExportSurfaceHandle, for each memory type it accepts,
\* fills the caller's descriptor with one memory object of size W*H*3/2 with
\* the linear modifier and the two NV12 layers, and records the exported
\* file descriptor on the CAPTURE buffer's descriptor.
C30_ExportFillsDescriptor ==
    [][\A s \in SurfaceIds, mem \in AcceptedMemTypes :
          ExportSucceeds(s, mem)
              => /\ Nv12Layout(descriptor')
                 /\ capture_fd'[surfaces[s].capture_idx] = lowest_fd(open_res)
                 /\ Fd(capture_fd'[surfaces[s].capture_idx]) \in open_res' \ open_res]_vars

\* the part of C30 that holds: DRM_PRIME fills the descriptor, and both
\* types record the file descriptor
C30_PrimeFillsDescriptor ==
    [][\A s \in SurfaceIds, mem \in AcceptedMemTypes :
          ExportSucceeds(s, mem)
              => /\ mem = "DRM_PRIME" => Nv12Layout(descriptor')
                 /\ capture_fd'[surfaces[s].capture_idx] = lowest_fd(open_res)
                 /\ Fd(capture_fd'[surfaces[s].capture_idx]) \in open_res' \ open_res]_vars

(* ------------------- H.264 crop of 1280x736 and 640x368 ----------------- *)

\* the SPS was generated from 4:2:0 frame-only picture parameters of
\* width_mbs x height_mbs macroblocks
H264Frame420(width_mbs, height_mbs) ==
    /\ codec = "H264"
    /\ gen_sps # << >>
    /\ h264_pic.picture_width_in_mbs_minus1 = width_mbs - 1
    /\ h264_pic.picture_height_in_mbs_minus1 = height_mbs - 1
    /\ h264_pic.chroma_format_idc = 1
    /\ h264_pic.frame_mbs_only_flag = 1

\* C40: for H.264 picture parameters of 1280x736 and of 640x368 with 4:2:0
\* frame-only coding, the frame crop of the synthesised SPS makes the display
\* height a decoder derives 720 and 360 respectively.
C40_CropTableHeights ==
    /\ H264Frame420(80, 46) => h264_display_height(gen_sps) = 720
    /\ H264Frame420(40, 23) => h264_display_height(gen_sps) = 360

\* the part of C40 that holds: 640x368 is cropped to 360
C40_Height360 ==
    H264Frame420(40, 23) => h264_display_height(gen_sps) = 360

(* ------------------------- counts and fixed arrays ---------------------- *)

\* the slots 0 .. n - 1 of array a
Slots(a, n) == { << a, i >> : i \in 0 .. n - 1 }

\* the counts VIDIOC_REQBUFS can grant when asked for requested buffers: the
\* kernel may grant fewer, and more where the device needs more
Grants(requested) == 1 .. requested + GrantExcess

\* v4l2_setup_output_queue: num_output_buffers = reqbufs.count, then the loop
\* over output_buffers[0 .. num_output_buffers - 1]
setup_output_queue(a, count) ==
    [a EXCEPT !.num_output_buffers = count,
              !.used = @ \cup Slots("output_buffers", count)]

\* v4l2_setup_capture_queue: num_capture_buffers = reqbufs.count, then the
\* loop over capture_buffers[0 .. num_capture_buffers - 1]
setup_capture_queue(a, count) ==
    [a EXCEPT !.num_capture_buffers = count,
              !.used = @ \cup Slots("capture_buffers", count)]

\* v4l2_probe_capabilities: supported_profiles[num_profiles++] for each
\* profile of each enumerated format, then num_supported_profiles
probe_capabilities(a, fmts) ==
    LET num_profiles == Len(v4l2_probe_capabilities(fmts))
    IN  [a EXCEPT !.num_supported_profiles = num_profiles,
                  !.used = @ \cup Slots("supported_profiles", num_profiles)]

\* v4l2_reclaim_output_buffers and the wait loop of v4l2_queue_bitstream:
\* "if (buf.index < MAX_OUTPUT_BUFFERS) output_buffers[buf.index].queued = false"
reclaim_output_index(a, index) ==
    IF index < MAX_OUTPUT_BUFFERS
    THEN [a EXCEPT !.dequeued = @ \cup { << "output_buffers", index >> }]
    ELSE a

\* v4l2_dequeue_frame: capture_buffers[buf.index].queued = false
dequeue_frame_index(a, index) ==
    [a EXCEPT !.dequeued = @ \cup { << "capture_buffers", index >> }]

array_vars == << decode_vars, status, configs, supported_profiles, gen_vars,
                 descriptor, buffers, creators, handed, image_data >>

\* v4l2_setup_output_queue in CreateContext
SetupOutputQueue(count) ==
    /\ arrays.num_output_buffers = 0
    /\ arrays' = setup_output_queue(arrays, count)
    /\ UNCHANGED array_vars

\* v4l2_setup_capture_queue at the first source-change event
SetupCaptureQueue(count) ==
    /\ arrays.num_output_buffers > 0
    /\ arrays.num_capture_buffers = 0
    /\ arrays' = setup_capture_queue(arrays, count)
    /\ UNCHANGED array_vars

\* v4l2_probe_capabilities in __vaDriverInit
ProbeCapabilities(have) ==
    /\ arrays.num_supported_profiles = 0
    /\ arrays' = probe_capabilities(arrays, EnumFmt(have))
    /\ UNCHANGED array_vars

\* VIDIOC_DQBUF on the OUTPUT queue returns buffer index
ReclaimOutput(index) ==
    /\ index \in 0 .. arrays.num_output_buffers - 1
    /\ arrays' = reclaim_output_index(arrays, index)
    /\ UNCHANGED array_vars

\* VIDIOC_DQBUF on the CAPTURE queue returns buffer index
DequeueIndex(index) ==
    /\ index \in 0 .. arrays.num_capture_buffers - 1
    /\ arrays' = dequeue_frame_index(arrays, index)
    /\ UNCHANGED array_vars

\* The set-up functions on a kernel that grants what it likes and returns
\* the first or the last buffer of a queue.
NextArrays ==
    \/ \E count \in Grants(MAX_OUTPUT_BUFFERS) : SetupOutputQueue(count)
    \/ \E count \in Grants(MAX_CAPTURE_BUFFERS) : SetupCaptureQueue(count)
    \/ \E have \in DeviceFormats : ProbeCapabilities(have)
    \/ \E index \in {0, arrays.num_output_buffers - 1} : ReclaimOutput(index)
    \/ \E index \in {0, arrays.num_capture_buffers - 1} : DequeueIndex(index)

SpecArrays == Init /\ [][NextArrays]_vars

\* the length of array a
ArrayLength(a) ==
    CASE a = "output_buffers" -> MAX_OUTPUT_BUFFERS
      [] a = "capture_buffers" -> MAX_CAPTURE_BUFFERS
      [] a = "supported_profiles" -> MAX_PROFILES

\* C39: the recorded counts never exceed their arrays: num_output_buffers
\* <= 8 and num_capture_buffers <= 16 whatever count the kernel grants, the
\* number of advertised profiles <= 16 whatever formats the kernel
\* enumerates, and every index used on a buffer-descriptor array lies within
\* the array.
C39_WithinArrays ==
    /\ arrays.num_output_buffers <= MAX_OUTPUT_BUFFERS
    /\ arrays.num_capture_buffers <= MAX_CAPTURE_BUFFERS
    /\ arrays.num_supported_profiles <= MAX_PROFILES
    /\ \A u \in arrays.used \cup arrays.dequeued :
          u[2] >= 0 /\ u[2] < ArrayLength(u[1])

\* the part of C39 that holds: the profiles, and everything on a kernel that
\* grants no more than was requested
C39_WithinArraysAsRequested ==
    /\ arrays.num_supported_profiles <= MAX_PROFILES
    /\ \A u \in arrays.used : u[1] = "supported_profiles" => u[2] < MAX_PROFILES
    /\ (/\ arrays.num_output_buffers <= MAX_OUTPUT_BUFFERS
        /\ arrays.num_capture_buffers <= MAX_CAPTURE_BUFFERS)
          => \A u \in arrays.used \cup arrays.dequeued :
                u[2] >= 0 /\ u[2] < ArrayLength(u[1])

(* ----------------------------- buffer ids ------------------------------- *)

\* VA_INVALID_ID as allocate_buffer_id returns it
InvalidBufferId == -1

\* the offset of buffer ids (0x3000)
BufferIdBase == 12288

\* #define BUFFER_INDEX(id)
BUFFER_INDEX(id) == id - 1 - BufferIdBase

\* allocate_buffer_id: i + 1 + 0x3000 for the first slot that is NULL
allocate_buffer_id(tab) ==
    IF \A i \in BufIdx : tab[i] # NoObject THEN InvalidBufferId
    ELSE 1 + BufferIdBase
         + CHOOSE i \in BufIdx :
              tab[i] = NoObject /\ \A k \in BufIdx : tab[k] = NoObject => i <= k

\* "drv->buffers[BUFFER_INDEX(id)] = buffer" of v4l2_CreateBuffer,
\* v4l2_CreateImage and v4l2_DeriveImage
store_buffer(tab, id, obj) == [tab EXCEPT ![BUFFER_INDEX(id)] = obj]

buffer_vars == << decode_vars, status, configs, supported_profiles, gen_vars,
                  descriptor, arrays, image_data >>

\* the first step of v4l2_CreateBuffer, v4l2_CreateImage and
\* v4l2_DeriveImage: allocate_buffer_id, which scans the table under
\* drv->mutex and releases it; VA_INVALID_ID ends the call
AllocateBufferId(t) ==
    /\ creators[t].pc = "idle"
    /\ creators[t].made < MaxCreates
    /\ creators' = [creators EXCEPT ![t] =
          IF allocate_buffer_id(buffers) = InvalidBufferId
          THEN [@ EXCEPT !.made = @ + 1]
          ELSE [@ EXCEPT !.pc = "store", !.id = allocate_buffer_id(buffers)]]
    /\ UNCHANGED << buffer_vars, buffers, handed >>

\* the rest of the call, without a lock: calloc and malloc (mem: they
\* succeed), then the store into the table and the return of the id
StoreBuffer(t, mem) ==
    /\ creators[t].pc = "store"
    /\ creators' = [creators EXCEPT ![t] = [pc |-> "idle", id |-> -1,
                                            made |-> @.made + 1]]
    /\ IF mem
       THEN /\ buffers' = store_buffer(buffers, creators[t].id,
                                       << t, creators[t].made >>)
            /\ handed' = handed \cup { [id |-> creators[t].id,
                                        obj |-> << t, creators[t].made >>] }
       ELSE UNCHANGED << buffers, handed >>
    /\ UNCHANGED buffer_vars

\* v4l2_DestroyBuffer on an id the consumer holds, under drv->mutex
DestroyBufferId(id) ==
    /\ \E h \in handed : h.id = id
    /\ buffers' = [buffers EXCEPT ![BUFFER_INDEX(id)] = NoObject]
    /\ handed' = { h \in handed : h.id # id }
    /\ UNCHANGED << buffer_vars, creators >>

\* Threads that create buffers and images while buffers are destroyed.
NextBuffers ==
    \/ \E t \in Creators : AllocateBufferId(t)
    \/ \E t \in Creators, mem \in BOOLEAN : StoreBuffer(t, mem)
    \/ \E i \in BufIdx : DestroyBufferId(i + 1 + BufferIdBase)

SpecBuffers == Init /\ [][NextBuffers]_vars

\* C38: concurrent CreateBuffer, CreateImage and DeriveImage calls return
\* distinct buffer ids: no id belongs to two live buffers at once, and no
\* buffer object stored in the table is overwritten by another creation.
C38_DistinctBufferIds ==
    /\ \A g, h \in handed : g.id = h.id => g = h
    /\ \A h \in handed : buffers[BUFFER_INDEX(h.id)] = h.obj

(* --------------------- a surface reported ready ------------------------- *)

\* a picture with render target s was submitted and its EndPicture has
\* returned
PictureSubmitted(s) ==
    /\ surfaces[s].alive
    /\ surfaces[s].context
    /\ ~(render_target = s /\ (in_picture \/ pc # "idle"))

\* GetImage would pass its test of surface->capture_idx
HasFrame(sf) == sf.capture_idx >= 0 /\ sf.capture_idx < num_capture_buffers

\* C32: when SyncSurface returns success for a surface to which a picture
\* was submitted, also after it used up its retries, the surface has
\* 0 <= capture_idx < the number of output buffers, so that GetImage delivers
\* pixel data.
C32_ReadyHasFrame ==
    [][(sync.pc = "loop" /\ sync'.pc = "ret" /\ status' = "SUCCESS"
          /\ PictureSubmitted(sync.s))
         => HasFrame(surfaces'[sync.s])]_vars

(* ------------------------------ readback -------------------------------- *)

\* the images the consumer creates with vaCreateImage: of the size of the
\* surfaces, narrower, wider, and with a dimension of 0
ImageSizes ==
    { create_image(w, h) :
        w \in {0, SurfaceWidth \div 2, SurfaceWidth, 2 * SurfaceWidth},
        h \in {0, SurfaceHeight} }

\* the process has not been stopped
Running == status # "SIGSEGV"

\* A VP9 session whose consumer decodes pictures of one slice and reads
\* surfaces back into images of several sizes.
NextImage ==
    \/ Running /\ CreateSurfaces
    \/ Running /\ \E s \in SurfaceIds : BeginPicture(s)
    \/ Running /\ RenderSliceParams(1)
    \/ Running /\ \E data \in [1 .. 1 -> SliceBytes(codec)] : RenderSliceData(data)
    \/ Running /\ EndPictureCalls(TRUE, TRUE)
    \/ Running /\ \E s \in SurfaceIds, img \in ImageSizes : GetImage(s, img)

SpecImage == Init /\ [][NextImage]_vars

\* the step is a GetImage of image img on the decoded surface s that got
\* its mappings
GetImageCopies(s, img) ==
    /\ status' # "OPERATION_FAILED"
    /\ surfaces[s].alive /\ surfaces[s].decoded /\ surfaces[s].context
    /\ HasFrame(surfaces[s])
    /\ GetImage(s, img)

\* what C31 says of a step
GetImageEffect(s, img) ==
    /\ image_data' = [y |-> img.width * img.height,
                      uv |-> (img.width * img.height) \div 2,
                      overrun |-> FALSE]
    /\ plane_mapped[surfaces[s].capture_idx] => open_res' = open_res
    /\ surfaces' = surfaces
    /\ capture_queued' = capture_queued

\* C31: GetImage on a decoded surface maps the two planes of the surface's
\* buffer at most once per buffer, copies W*H bytes of Y followed by W*H/2
\* bytes of UV into the image buffer, and leaves the surface's capture_idx
\* and the buffer's queued flag unchanged.
C31_GetImageCopies ==
    [][\A s \in SurfaceIds, img \in ImageSizes :
          GetImageCopies(s, img) => GetImageEffect(s, img)]_vars

\* the part of C31 that holds: so it is for an image that is not larger than
\* the surface and has no dimension of 0
C31_GetImageCopiesFitting ==
    [][\A s \in SurfaceIds, img \in ImageSizes :
          (/\ img.width # 0 /\ img.height # 0
           /\ img.width * img.height <= SurfaceWidth * SurfaceHeight
           /\ GetImageCopies(s, img))
          => GetImageEffect(s, img)]_vars

(* ------------------- one buffer for each picture ------------------------ *)

\* C34: for each submitted picture at most one CAPTURE buffer is dequeued
\* onto its render target, also when SyncSurface on that surface runs while
\* the EndPicture of the picture does: a binding recorded on a surface is
\* never overwritten by a second dequeue, which would leave the first buffer
\* neither queued nor bound.
C34_BindingNotOverwritten ==
    [][\A s \in SurfaceIds :
          (surfaces[s].alive /\ surfaces'[s].alive /\ surfaces[s].capture_idx >= 0)
          => surfaces'[s].capture_idx \in {surfaces[s].capture_idx, -1}]_vars

(* ------------------- the frame of the surface's picture ----------------- *)

\* a picture with render target o was submitted and no frame has been bound
\* to o since
Outstanding(o) ==
    /\ PictureSubmitted(o)
    /\ ~surfaces[o].decoded
    /\ surfaces[o].capture_idx = -1

\* C33: whenever a surface is bound to a CAPTURE buffer, the buffer holds the
\* frame of the picture most recently submitted with that surface as render
\* target, the kernel emitting frames in the order of submission: the
\* dequeue of an EndPicture or of a SyncSurface binds a buffer to the surface
\* of the picture submitted last only when no picture submitted before it
\* still waits for its frame.
C33_FrameOfOwnPicture ==
    [][\A s \in SurfaceIds :
          (/\ s = render_target
           /\ pc = "dequeue" \/ PictureSubmitted(s)
           /\ surfaces'[s].capture_idx >= 0
           /\ surfaces'[s].capture_idx # surfaces[s].capture_idx)
          => ~\E o \in SurfaceIds \ {s} : Outstanding(o)]_vars

(* ---------------- surfaces of a destroyed session ----------------------- *)

\* C35: after DestroyContext no live surface still refers to the destroyed
\* session, so that no later call on a surface that was used with the session
\* operates on the freed session state.
C35_NoSurfaceOfDestroyed ==
    context = "destroyed" =>
        \A s \in SurfaceIds : surfaces[s].alive => ~surfaces[s].context

(* ------------------- the headers ahead of a keyframe -------------------- *)

\* the synthesised headers among the chunks bb
HeaderChunks(bb) ==
    { bb[i] : i \in { j \in 1 .. Len(bb) : bb[j].k \in {"VPS", "SPS", "PPS"} } }

\* the chunks the session appends for a slice that starts with byte, once
\* it has received the picture parameters pic
ChunksAfterParams(pic, byte) ==
    IF codec = "H264"
    THEN h264_slice([bb |-> << >>, st |-> h264_handle_picture_params(h264, pic),
                     sent |-> h264.sps_pps_sent], byte).bb
    ELSE hevc_slice([bb |-> << >>,
                     st |-> hevc_handle_picture_params(hevc, hevc_last, pic),
                     sent |-> hevc.params_sent], byte).bb

\* C36: whenever synthesised headers are emitted ahead of a keyframe, they
\* are the headers generated from the most recent picture parameters the
\* session received before the slice data of that keyframe, for H.264 and
\* for HEVC, also when those parameters differ from the previous ones only in
\* fields other than width, height and bit depth.
C36_HeadersOfLatestParams ==
    codec \in {"H264", "HEVC"} =>
        \A pic \in PicParams, byte \in SliceBytes(codec) :
            \A c \in HeaderChunks(ChunksAfterParams(pic, byte)) : c.v = pic

\* the part of C36 that holds: so it is for H.264
C36_H264HeadersOfLatestParams ==
    codec = "H264" =>
        \A pic \in PicParams, byte \in SliceBytes(codec) :
            \A c \in HeaderChunks(ChunksAfterParams(pic, byte)) : c.v = pic

(* ------------------- the input buffer that is filled -------------------- *)

\* the buffer v4l2_queue_bitstream is about to copy the bitstream into is
\* one the kernel does not own, and its descriptor says so
CopiesIntoFreeBuffer ==
    pc = "queue" =>
        /\ ep.buf_idx \in OutputIdx
        /\ ~output_queued[ep.buf_idx]
        /\ ep.buf_idx \notin k_output

\* a descriptor becomes queued in the step in which the kernel accepts its
\* buffer, and in no other
QueuedWhenAccepted ==
    \A i \in OutputIdx :
        (~output_queued[i] /\ output_queued'[i]) <=> (i \notin k_output /\ i \in k_output')

====
